---- MODULE Spec2Model ----
(***************************************************************************)
(* GalactiMecha simulation core: the multi-step simulation loop, the      *)
(* attacked variant, the attack harness and the time-to-destination       *)
(* estimator of src/ai/scripts/simulation_functions.py, with the          *)
(* telemetry generator of src/ai/data/data_generator.py.                  *)
(*                                                                         *)
(* Numbers.  A Python/NumPy float is modelled as a record [k, v]:         *)
(*   [k |-> "fin", v |-> n]  the finite value n/100 (fixed point, two     *)
(*                           decimals, results truncated toward zero),    *)
(*   [k |-> "inf", v |-> 1]  +infinity,  [k |-> "inf", v |-> -1] -inf,    *)
(*   [k |-> "nan", v |-> 0]  NaN,                                          *)
(*   [k |-> "none", v |-> 0] Python's None.                                *)
(* Arithmetic follows IEEE-754 for the non-finite values (NaN propagates,  *)
(* comparisons with NaN are false, inf - inf = NaN, 0 * inf = NaN).        *)
(* Durations inside the estimator are whole seconds, its result is in     *)
(* hundredths of an hour.                                                  *)
(***************************************************************************)
EXTENDS Integers, Sequences, FiniteSets, TLC

(* ----------------------------- numbers --------------------------------- *)

Fin(x) == [k |-> "fin", v |-> x]
NaN == [k |-> "nan", v |-> 0]
PosInf == [k |-> "inf", v |-> 1]
NegInf == [k |-> "inf", v |-> -1]
None == [k |-> "none", v |-> 0]

IsFin(a) == a.k = "fin"
IsNaN(a) == a.k = "nan"
IsInf(a) == a.k = "inf"

Abs(x) == IF x < 0 THEN -x ELSE x
Sign(x) == IF x < 0 THEN -1 ELSE IF x > 0 THEN 1 ELSE 0
Max2(x, y) == IF x >= y THEN x ELSE y

\* Integer division truncating toward zero.
TDiv(x, q) == IF x >= 0 THEN x \div q ELSE -((-x) \div q)

XNeg(a) == [a EXCEPT !.v = -a.v]

XAbs(a) == [a EXCEPT !.v = Abs(a.v)]

XAdd(a, b) ==
    IF IsNaN(a) \/ IsNaN(b) THEN NaN
    ELSE IF IsFin(a) /\ IsFin(b) THEN Fin(a.v + b.v)
    ELSE IF IsInf(a) /\ IsInf(b) THEN (IF a.v = b.v THEN a ELSE NaN)
    ELSE IF IsInf(a) THEN a
    ELSE b

XSub(a, b) == XAdd(a, XNeg(b))

\* a < b; false when either side is NaN.
XLt(a, b) ==
    /\ ~IsNaN(a)
    /\ ~IsNaN(b)
    /\ IF IsInf(a) THEN a.v < 0 /\ ~(IsInf(b) /\ b.v < 0)
       ELSE IF IsInf(b) THEN b.v > 0
       ELSE a.v < b.v

XGt(a, b) == XLt(b, a)

\* a <= b; false when either side is NaN.
XLe(a, b) == ~IsNaN(a) /\ ~IsNaN(b) /\ ~XLt(b, a)

\* a * p / q for positive integer constants p and q.
XScale(a, p, q) == IF IsFin(a) THEN Fin(TDiv(a.v * p, q)) ELSE a

\* Product of two fixed-point values (0 * inf = NaN).
XMul(a, b) ==
    IF IsNaN(a) \/ IsNaN(b) THEN NaN
    ELSE IF IsFin(a) /\ IsFin(b) THEN Fin(TDiv(a.v * b.v, 100))
    ELSE IF a.v = 0 \/ b.v = 0 THEN NaN
    ELSE [k |-> "inf", v |-> Sign(a.v) * Sign(b.v)]

\* Quotient as NumPy computes it: a finite value over zero is +-inf or NaN,
\* never an exception.  The finite quotient is a plain ratio (no rescaling).
XRatio(a, b) ==
    IF IsNaN(a) \/ IsNaN(b) THEN NaN
    ELSE IF IsInf(a) /\ IsInf(b) THEN NaN
    ELSE IF IsInf(a) THEN [k |-> "inf", v |-> a.v * (IF b.v < 0 THEN -1 ELSE 1)]
    ELSE IF IsInf(b) THEN Fin(0)
    ELSE IF b.v = 0 THEN (IF a.v = 0 THEN NaN ELSE [k |-> "inf", v |-> Sign(a.v)])
    ELSE Fin(TDiv(a.v, b.v))

RECURSIVE ISqrtIter(_, _, _)
\* Largest r in lo..hi with r*r <= n (binary search).
ISqrtIter(n, lo, hi) ==
    IF lo >= hi THEN lo
    ELSE LET mid == (lo + hi + 1) \div 2
         IN  IF mid * mid <= n THEN ISqrtIter(n, mid, hi)
             ELSE ISqrtIter(n, lo, mid - 1)

ISqrt(n) == ISqrtIter(n, 0, 46340)

\* The divisor that brings a magnitude into the range whose squares fit.
NormScale(m) ==
    IF m <= 26000 THEN 1
    ELSE IF m <= 260000 THEN 10
    ELSE IF m <= 2600000 THEN 100
    ELSE IF m <= 26000000 THEN 1000
    ELSE 10000

\* Euclidean norm of three integers, keeping about four significant digits.
NormInt(x, y, z) ==
    LET m == Max2(Abs(x), Max2(Abs(y), Abs(z)))
        s == NormScale(m)
        xs == TDiv(x, s)
        ys == TDiv(y, s)
        zs == TDiv(z, s)
    IN  s * ISqrt(xs * xs + ys * ys + zs * zs)

\* np.linalg.norm of a 3-vector: NaN if a component is NaN, else inf if a
\* component is infinite.
XNorm3(p) ==
    IF \E i \in 1..3 : IsNaN(p[i]) THEN NaN
    ELSE IF \E i \in 1..3 : IsInf(p[i]) THEN PosInf
    ELSE Fin(NormInt(p[1].v, p[2].v, p[3].v))

\* np.clip(x, lo, hi): NaN stays NaN.
XClip(a, lo, hi) ==
    IF IsNaN(a) THEN a
    ELSE IF XLt(a, Fin(lo)) THEN Fin(lo)
    ELSE IF XGt(a, Fin(hi)) THEN Fin(hi)
    ELSE a

\* np.sqrt: NaN for a negative argument, no exception.
XSqrt(a) ==
    IF IsNaN(a) THEN NaN
    ELSE IF IsInf(a) THEN (IF a.v > 0 THEN PosInf ELSE NaN)
    ELSE IF a.v < 0 THEN NaN
    ELSE Fin(ISqrt(a.v))

\* Python's min(a, b): b only when b < a, so a NaN first argument is returned.
PyMin(a, b) == IF XLt(b, a) THEN b ELSE a

\* Python's max(0, x): x only when x > 0, so NaN and -inf give 0.
PyMax0(x) == IF XGt(x, Fin(0)) THEN x ELSE Fin(0)

(* ---------------------- time-to-destination estimator ------------------ *)

CloseDistance == 100000
FinalApproachHours == 50
ThrustLimit == 200
SpeedCap == 500
HoursPerSecondDivisor == 360
MinHours == 1
MaxHours == 100000

\* -np.dot(current_velocity, current_pos) / distance, for distance >= 1000 km.
\* With everything finite the position is first reduced to a unit vector (in
\* thousandths) so that the products fit; otherwise only the class (inf, NaN)
\* of the result is computed, which is all that survives the division.
VelocityTowardsMars(current_pos, current_velocity, distance) ==
    IF ~IsFin(distance) THEN NaN
    ELSE IF \A i \in 1..3 : IsFin(current_velocity[i]) THEN
        LET d == TDiv(distance.v, 1000)
            u(i) == TDiv(current_pos[i].v, d)
        IN  Fin(-TDiv(current_velocity[1].v * u(1) + current_velocity[2].v * u(2)
                      + current_velocity[3].v * u(3), 1000))
    ELSE
        LET t(i) == XMul(current_velocity[i], Fin(100 * Sign(current_pos[i].v)))
        IN  XNeg(XAdd(XAdd(t(1), t(2)), t(3)))

\* The kinematic estimate with its two divisions by max_thrust left
\* unguarded: NumPy then divides by zero without raising.
TotalTimeUnguarded(distance, velocity_towards_mars, fuel_level) ==
    LET max_thrust == XScale(fuel_level, ThrustLimit, 10000)
    IN  IF XLe(velocity_towards_mars, Fin(0)) THEN
            XAdd(XRatio(XAbs(velocity_towards_mars), max_thrust),
                 XSqrt(XRatio(XScale(distance, 2, 1), max_thrust)))
        ELSE XRatio(distance, PyMin(velocity_towards_mars, Fin(SpeedCap)))

\* The kinematic estimate in whole seconds (lines 31-48).
TotalTime(distance, velocity_towards_mars, fuel_level) ==
    LET max_thrust == XScale(fuel_level, ThrustLimit, 10000)
    IN  IF XLe(velocity_towards_mars, Fin(0)) THEN
            LET deceleration_time ==
                    IF XGt(max_thrust, Fin(0))
                    THEN XRatio(XAbs(velocity_towards_mars), max_thrust)
                    ELSE PosInf
                cruise_time ==
                    IF XGt(max_thrust, Fin(0))
                    THEN XSqrt(XRatio(XScale(distance, 2, 1), max_thrust))
                    ELSE PosInf
            IN  XAdd(deceleration_time, cruise_time)
        ELSE
            LET avg_velocity == PyMin(velocity_towards_mars, Fin(SpeedCap))
            IN  XRatio(distance, avg_velocity)

\* The estimate handed back as computed, without the sanity checks.
SanityChecksOmitted(time_hours) == time_hours

\* The sanity checks of lines 55-58; a NaN passes both comparisons unchanged.
SanityChecks(time_hours) ==
    IF XLt(time_hours, Fin(MinHours)) THEN Fin(MinHours)
    ELSE IF XGt(time_hours, Fin(MaxHours)) THEN PosInf
    ELSE time_hours

\* Lines 27-58: everything after the final-approach shortcut.  np.dot raises
\* for operands of different lengths; the except clause turns that into None.
KinematicEstimate(current_pos, current_velocity, fuel_level, distance) ==
    IF Len(current_velocity) # Len(current_pos) THEN None
    ELSE SanityChecks(
            XScale(TotalTime(distance,
                             VelocityTowardsMars(current_pos, current_velocity, distance),
                             fuel_level),
                   1, HoursPerSecondDivisor))

\* The estimator without its final-approach shortcut.
calculate_time_without_shortcut(current_pos, current_velocity, fuel_level) ==
    KinematicEstimate(current_pos, current_velocity, fuel_level, XNorm3(current_pos))

\* calculate_time_to_destination: within 1000 km of the origin the answer is
\* 0.5 h before the velocity or the fuel is looked at.
calculate_time_to_destination(current_pos, current_velocity, fuel_level) ==
    LET distance == XNorm3(current_pos)
    IN  IF XLt(distance, Fin(CloseDistance)) THEN Fin(FinalApproachHours)
        ELSE KinematicEstimate(current_pos, current_velocity, fuel_level, distance)

(* --------------------------- telemetry generator ----------------------- *)

\* NumPy's process-wide generator (np.random), reduced to a linear
\* congruential generator over 0..100.  A draw advances the state and its
\* value is the new state.
RngSeed(seed) == seed % 101

RngNext(s) == (s * 37 + 11) % 101

RECURSIVE RngPower(_)
\* 37^n modulo 101, by repeated squaring.
RngPower(n) ==
    IF n = 0 THEN 1
    ELSE LET h == RngPower(n \div 2)
         IN  (h * h * (IF n % 2 = 1 THEN 37 ELSE 1)) % 101

\* The state after n draws from state s; also the value of the n-th draw.
\* RngNext fixes 53, so n applications of it map s to 37^n * (s - 53) + 53.
RngSkip(s, n) == (RngPower(n) * (s + 101 - 53) + 53) % 101

\* Samples of the distributions used, from a draw d in 0..100, in hundredths.
Normal(mu, sigma, d) == mu + TDiv(sigma * (d - 50), 25)

Uniform(lo, hi, d) == lo + TDiv((hi - lo) * d, 101)

Exponential(scale, d) == TDiv(scale * d, 50)

Beta25(d) == TDiv(70 * d, 101)

\* np.random.normal(mu, sigma, n) from state s: the n values, in draw order.
NormalVec(s, n, mu, sigma) == [i \in 1..n |-> Normal(mu, sigma, RngSkip(s, i))]

\* The draws of generate_correct_data(1) from generator state s, in source
\* order.  The result is the row without timestamp and landing-zone columns
\* (dropped by every caller) and the generator state left behind.
DrawRow(s) ==
    LET d(i) == RngSkip(s, i)
    IN  [state |-> << 10000000 + Normal(0, 10000, d(1)),
                      Normal(0, 50000, d(2)),
                      Normal(0, 50000, d(3)),
                      -Uniform(100, 500, d(4)),
                      Normal(0, 50, d(5)),
                      Normal(0, 50, d(6)),
                      Normal(0, 10, d(7)),
                      Max2(0, 10000 - 0 + Normal(0, 500, d(8))),
                      Exponential(100000, d(9)),
                      Beta25(d(10)) * 10 >>,
         rng |-> RngSkip(s, 12)]

\* A generator of rows that draws on from the state it finds.
generate_without_seed(s_in) == DrawRow(s_in)

\* generate_correct_data(1): reseeds the process-wide generator with 42, then
\* draws the row; the generator state at the call does not matter.
generate_correct_data(s_in) == DrawRow(RngSeed(42))

RECURSIVE Shuffle(_, _, _)
\* The Fisher-Yates passes from position i down to 2 on perm, the swap partner
\* of position i taken from the draw after state s.
Shuffle(perm, i, s) ==
    IF i < 2 THEN perm
    ELSE LET j == (RngNext(s) % i) + 1
         IN  Shuffle([perm EXCEPT ![i] = perm[j], ![j] = perm[i]], i - 1, RngNext(s))

\* np.random.choice(n, k) with replacement: k independent row numbers.
ChoiceWithReplacement(n, k, s) == [m \in 1..k |-> (RngSkip(s, m) % n) + 1]

\* np.random.choice(n, k, replace=False): the first k entries of a random
\* permutation of the n row numbers (here 1..n), hence k different rows.
Choice(n, k, s) == SubSeq(Shuffle([i \in 1..n |-> i], n, s), 1, k)

\* inject_fake_data(df, corruption_rate) from generator state s; df is the
\* sequence of its rows (the index is the default 0..n-1 of every table that
\* generate_correct_data makes) and corruption_rate is in percent.  Draw
\* order: the row choice (n draws), then per chosen row the position factors,
\* the velocity factors, the fuel levels, the hazard scores.  The writes go to
\* df_copy; df is what the caller's table holds afterwards.
inject_fake_data(df, s, corruption_rate) ==
    LET n == Len(df)
        num_corrupt == TDiv(n * corruption_rate, 100)
        corrupt_indices == Choice(n, num_corrupt, s)
        d(i) == RngSkip(s, n + i)
        slot(r) == CHOOSE m \in 1..num_corrupt : corrupt_indices[m] = r
        corrupted(row, m) ==
            [row EXCEPT ![1] = @ * (IF d(m) % 2 = 0 THEN -10 ELSE 10),
                        ![4] = TDiv(@ * Uniform(500, 2000, d(num_corrupt + m)), 100),
                        ![8] = Uniform(0, 20000, d(2 * num_corrupt + m)),
                        ![10] = Uniform(800, 1500, d(3 * num_corrupt + m))]
    IN  [df |-> df,
         df_copy |-> [r \in 1..n |->
                        IF \E m \in 1..num_corrupt : corrupt_indices[m] = r
                        THEN corrupted(df[r], slot(r))
                        ELSE df[r]],
         rng |-> RngSkip(s, n + 4 * num_corrupt)]

\* A corruption of the step's row that reaches the position column only.
CorruptRowPartly(state, s) ==
    LET t == inject_fake_data(<< state >>, s, 100)
    IN  [state |-> [state EXCEPT ![1] = t.df_copy[1][1]], rng |-> t.rng]

\* inject_fake_data(data, corruption_rate=1.0) on the one-row table of a step
\* (lines 129 and 430).
CorruptRow(state, s) ==
    LET t == inject_fake_data(<< state >>, s, 100)
    IN  [state |-> t.df_copy[1], rng |-> t.rng]

\* np.random.random() < anomaly_rate (anomaly_rate in percent).
RandomBelow(s, anomaly_rate) == TDiv(100 * RngNext(s), 101) < anomaly_rate

(* ------------------------------ state ---------------------------------- *)

VARIABLES
    rng,             \* state of the process-wide np.random generator
    args,            \* per function: the arguments of the call
    fault,           \* per function: which operation fails, and at which step
    pc,              \* per function: "off", "idle", "running", "done", "raised"
    step,            \* per function: the loop variable
    current_fuel,    \* per function: local current_fuel
    current_pos,     \* per function: local current_pos
    state_template,  \* run_multi_step_simulation's local state_template
    guidance,        \* per function: the guidance vector in use
    results,         \* per function: the local results dictionary
    ret,             \* per function: what the caller has received
    hpc,             \* run_attack_scenario's position ("off" when not called)
    report,          \* run_attack_scenario: the summary's computed fields
    pending,         \* concurrent runs: the step in progress of each run
    est,             \* a direct call of calculate_time_to_destination
    drift,           \* the calls of detect_drift made so far, with their reports
    inj,             \* a direct call of inject_fake_data
    calls,           \* how often the interpreter was called, and per function
                     \* the guidance each call of the oracle was given and
                     \* the vector each call returned
    det              \* an AnomalyDetector object and the calls made on it

vars == << rng, args, fault, pc, step, current_fuel, current_pos, state_template,
           guidance, results, ret, hpc, report, pending, est, drift, inj, calls,
           det >>

\* run_multi_step_simulation ("sim") and run_multi_step_simulation_attack ("atk").
Runs == {"sim", "atk"}

MaxSteps == 2

StartFuel == 10000
StartX == 5000000
ClampLimit == 200
AttackSensitivity == 50

\* Outputs of the navigation oracle the model draws from: a small manoeuvre, a
\* large finite one (thrust norm 6.00), and one with NaN and infinite parts.
SmallMove == << Fin(60), Fin(80), Fin(0), Fin(10), Fin(-10), Fin(0) >>
BigMove == << Fin(360), Fin(-480), Fin(0), Fin(300), Fin(-300), Fin(0) >>
WildMove == << NaN, PosInf, Fin(0), NegInf, Fin(0), Fin(150) >>
MoveSet == {SmallMove, BigMove, WildMove}

\* Scores the detector's decision_function may give (hundredths).
ScoreSet == {-60, 10}

\* What a scorer returns for a state: "any" is a black box, "dummy" is the
\* DummyDetector of run_attack_scenario, the others are fitted, deterministic
\* scorers.
ScorerOutputs(id, state) ==
    CASE id = "any" -> ScoreSet
      [] id = "hazard" -> {IF state[10] >= 800 THEN -60 ELSE 10}
      [] id = "always" -> {-60}
      [] id = "dummy" -> {0}
      [] OTHER -> {10}

\* What predict_next_move returns: "any" is a black box (an untrained network
\* is re-initialised at random on every call), the others are pure functions.
OracleOutputs(id, state, g) ==
    CASE id = "any" -> MoveSet
      [] id = "velocity" -> {<< Fin(-state[4]), Fin(state[5]), Fin(state[6]),
                                Fin(g[1]), Fin(0), Fin(g[3]) >>}
      [] id = "wild" -> {IF state[10] >= 800 THEN WildMove ELSE SmallMove}
      [] OTHER -> {SmallMove}

\* The moves of a missing predictor and of the DummyPredictor:
\* np.random.normal(0, 0.5, 6).
RandomMove(s) == [j \in 1..6 |-> Fin(Normal(0, 50, RngSkip(s, j)))]

\* The predictor draws from the process-wide generator.
DrawsMove(oracle) == oracle \in {"absent", "dummy"}

\* The moves a step can get from its predictor.
Moves(oracle, state, g, s) ==
    IF DrawsMove(oracle) THEN {RandomMove(s)} ELSE OracleOutputs(oracle, state, g)

\* SLMInterpreter.interpret_instruction, rule-based path; an instruction is the
\* set of keywords its lower-cased text contains.
interpret_instruction(instruction) ==
    LET direction == IF "north" \in instruction THEN 100
                     ELSE IF "south" \in instruction THEN -100 ELSE 0
        fuel_priority ==
            IF instruction \cap {"minimal", "conserv", "save"} # {} THEN 80
            ELSE IF instruction \cap {"aggressive", "fast", "quick"} # {} THEN 20
            ELSE 50
    IN  << direction, 0, fuel_priority >>

EmptyLedger(r) ==
    IF r = "sim"
    THEN [steps |-> << >>, anomalies |-> << >>, predictions |-> << >>,
          sensor_data |-> << >>, fuel_levels |-> << >>, distances |-> << >>,
          positions |-> << >>, time_estimates |-> << >>]
    ELSE [steps |-> << >>, anomalies |-> << >>, predictions |-> << >>,
          sensor_data |-> << >>, fuel_levels |-> << >>, distances |-> << >>,
          positions |-> << >>, attack_active |-> << >>, time_estimates |-> << >>]

\* The dummy ledger returned when a dependency is missing (lines 83-94); the
\* dictionary literal draws the predictions first, then the sensor data.
PlaceholderLedger(num_steps, s) ==
    [steps |-> [i \in 1..num_steps |-> i - 1],
     anomalies |-> [i \in 1..num_steps |-> FALSE],
     predictions |-> [i \in 1..num_steps |->
                        [j \in 1..6 |-> Fin(Normal(0, 50, RngSkip(s, 6 * (i - 1) + j)))]],
     sensor_data |-> [i \in 1..num_steps |->
                        NormalVec(RngSkip(s, 6 * num_steps + 10 * (i - 1)), 10, 0, 100)],
     fuel_levels |-> [i \in 1..num_steps |-> Fin(10000 - (i - 1) * 50)],
     distances |-> [i \in 1..num_steps |-> Fin(5000000 - (i - 1) * 10000)],
     positions |-> [i \in 1..num_steps |->
                        << Fin(5000000 - (i - 1) * 10000), Fin(0), Fin(0) >>],
     time_estimates |-> [i \in 1..num_steps |-> Fin(5000 - (i - 1) * 50)]]

(* -------------------------- one step of a run -------------------------- *)

\* The fault, if any, that the environment injects into the current step.  An
\* "import" fault lasts for the whole run (the data generator cannot be loaded).
FaultNow(r) ==
    IF fault[r].kind = "import" THEN "import"
    ELSE IF fault[r].kind # "none" /\ fault[r].at = step[r] THEN fault[r].kind
    ELSE "none"

\* A loop over range(num_steps) that continues with index k after a run that
\* would wrongly include num_steps itself.
LoopContinuesInclusive(k, num_steps) == k <= num_steps

\* for step in range(num_steps): there is an iteration for index k.
LoopContinues(k, num_steps) == k < num_steps

\* is_anomaly = anomaly_score < -anomaly_sensitivity
IsAnomaly(anomaly_score, anomaly_sensitivity) == anomaly_score < -anomaly_sensitivity

\* An attack window that is open from step 0 whatever attack_start is.
AttackActiveFromZero(k, attack_start, attack_end) == k < attack_end

\* An attack window that includes its end step.
AttackActiveInclusive(k, attack_start, attack_end) ==
    attack_start <= k /\ k <= attack_end

\* attack_active = attack_start <= step < attack_end
AttackActive(k, attack_start, attack_end) == attack_start <= k /\ k < attack_end

\* A clamp that fires on every flagged step, attack-active or not.
SafetyClampFlagged(move, attack_active, is_anomaly) ==
    IF is_anomaly
    THEN [i \in 1..6 |-> XClip(move[i], -ClampLimit, ClampLimit)]
    ELSE move

\* np.clip(move, -2.0, 2.0) when the step is attack-active and flagged.
SafetyClamp(move, attack_active, is_anomaly) ==
    IF attack_active /\ is_anomaly
    THEN [i \in 1..6 |-> XClip(move[i], -ClampLimit, ClampLimit)]
    ELSE move

\* The fuel update without its floor at zero.
FuelUpdateNoFloor(fuel, move) ==
    XSub(fuel, XScale(XNorm3(<< move[1], move[2], move[3] >>), 1, 10))

\* current_fuel = max(0, current_fuel - thrust_magnitude * 0.1)
FuelUpdate(fuel, move) ==
    LET thrust_magnitude == XNorm3(<< move[1], move[2], move[3] >>)
    IN  PyMax0(XSub(fuel, XScale(thrust_magnitude, 1, 10)))

\* current_pos += velocity * 0.1 + move[:3] * 0.01
PositionUpdate(pos, velocity, move) ==
    [i \in 1..3 |->
        XAdd(pos[i], XAdd(XScale(velocity[i], 1, 10), XScale(move[i], 1, 100)))]

\* velocity = state[3:6]
Velocity(state) == << Fin(state[4]), Fin(state[5]), Fin(state[6]) >>

\* Lines 127-129 on the generated row g: the draw np.random.random() and, if
\* it is below anomaly_rate, inject_fake_data.
\* Data acquisition of run_multi_step_simulation (lines 123-138) follows: any
\* exception inside the try block is swallowed and the step goes on with
\* state_template plus noise.
SimPerturb(g, f, anomaly_rate, template) ==
    IF RandomBelow(g.rng, anomaly_rate) THEN
        IF f = "inject" THEN
            [state |-> [i \in 1..10 |->
                          template[i] + NormalVec(RngNext(g.rng), 10, 0, 10)[i]],
             rng |-> RngSkip(g.rng, 11), fallback |-> TRUE, injected |-> FALSE]
        ELSE
            LET c == CorruptRow(g.state, RngNext(g.rng))
            IN  [state |-> c.state, rng |-> c.rng,
                 fallback |-> FALSE, injected |-> TRUE]
    ELSE [state |-> g.state, rng |-> RngNext(g.rng),
          fallback |-> FALSE, injected |-> FALSE]

SimAcquire(s, f, anomaly_rate, template) ==
    IF f \in {"import", "generate"} THEN
        [state |-> [i \in 1..10 |-> template[i] + NormalVec(s, 10, 0, 10)[i]],
         rng |-> RngSkip(s, 10), fallback |-> TRUE, injected |-> FALSE]
    ELSE SimPerturb(generate_correct_data(s), f, anomaly_rate, template)

\* Lines 429-430 on the generated row g: inject_fake_data inside the window.
\* Data acquisition of run_multi_step_simulation_attack (lines 423-439)
\* follows: the fallback is a fresh standard-normal row.
AtkPerturb(g, f, attack_active) ==
    IF attack_active THEN
        IF f = "inject" THEN
            [state |-> NormalVec(g.rng, 10, 0, 100), rng |-> RngSkip(g.rng, 10),
             fallback |-> TRUE, injected |-> FALSE]
        ELSE
            LET c == CorruptRow(g.state, g.rng)
            IN  [state |-> c.state, rng |-> c.rng,
                 fallback |-> FALSE, injected |-> TRUE]
    ELSE [state |-> g.state, rng |-> g.rng,
          fallback |-> FALSE, injected |-> FALSE]

AtkAcquire(s, f, attack_active) ==
    IF f \in {"import", "generate"} THEN
        [state |-> NormalVec(s, 10, 0, 100), rng |-> RngSkip(s, 10),
         fallback |-> TRUE, injected |-> FALSE]
    ELSE AtkPerturb(generate_correct_data(s), f, attack_active)

\* Appending current_pos itself: the list entry is a reference to the array
\* that later steps update in place, written as the one-element tuple naming it.
Reference(pos) == << "current_pos" >>

\* current_pos.copy(): the list entry is a new array holding the position of
\* this moment.
Copy(pos) == pos

\* The appends of a step without the one to time_estimates.
AppendWithoutEstimate(res, r, k, is_anomaly, move, state, fuel, pos, attack_active) ==
    LET common ==
            [res EXCEPT
                !.steps = Append(@, k),
                !.anomalies = Append(@, is_anomaly),
                !.predictions = Append(@, move),
                !.sensor_data = Append(@, state),
                !.fuel_levels = Append(@, fuel),
                !.distances = Append(@, XNorm3(pos)),
                !.positions = Append(@, Copy(pos))]
    IN  IF r = "atk"
        THEN [common EXCEPT !.attack_active = Append(@, attack_active)]
        ELSE common

\* The appends of lines 160-167 and 466-474.
AppendStep(res, r, k, is_anomaly, move, state, fuel, pos, attack_active) ==
    LET velocity == Velocity(state)
        common ==
            [res EXCEPT
                !.steps = Append(@, k),
                !.anomalies = Append(@, is_anomaly),
                !.predictions = Append(@, move),
                !.sensor_data = Append(@, state),
                !.fuel_levels = Append(@, fuel),
                !.distances = Append(@, XNorm3(pos)),
                !.positions = Append(@, Copy(pos)),
                !.time_estimates =
                    Append(@, calculate_time_to_destination(pos, velocity, fuel))]
    IN  IF r = "atk"
        THEN [common EXCEPT !.attack_active = Append(@, attack_active)]
        ELSE common

\* What one loop iteration computes once the sample, the score and the
\* oracle's move are known: clamp, fuel, position, appends.
StepOutcome(r, res, fuel0, pos0, k, state, is_anomaly, oracle_move, attack_active) ==
    LET move == SafetyClamp(oracle_move, attack_active, is_anomaly)
        fuel == FuelUpdate(fuel0, move)
        pos == PositionUpdate(pos0, Velocity(state), move)
    IN  [fuel |-> fuel, pos |-> pos,
         results |-> AppendStep(res, r, k, is_anomaly, move, state, fuel, pos,
                                attack_active)]

\* predict_next_move(state, guidance) is called by run r with the vector g.
OracleCalled(r, g) == [calls EXCEPT !.oracle[r] = Append(@, g)]

\* The call returned the vector move.
OracleReturned(r, g, move) ==
    [calls EXCEPT !.oracle[r] = Append(@, g), !.returned[r] = Append(@, move)]

\* The rest of one loop iteration of run r, on the run's own variables.  The
\* attacked run draws a random move instead of calling a missing predictor.
FinishStep(r, acq, is_anomaly, oracle_move, attack_active) ==
    LET out == StepOutcome(r, results[r], current_fuel[r], current_pos[r], step[r],
                           acq.state, is_anomaly, oracle_move, attack_active)
    IN  /\ current_fuel' = [current_fuel EXCEPT ![r] = out.fuel]
        /\ current_pos' = [current_pos EXCEPT ![r] = out.pos]
        /\ results' = [results EXCEPT ![r] = out.results]
        /\ step' = [step EXCEPT ![r] = @ + 1]
        /\ calls' = IF args[r].oracle = "absent" THEN calls
                    ELSE OracleReturned(r, guidance[r], oracle_move)

\* An exception leaves the function: the caller gets the exception and nothing
\* else (the local results dictionary is not part of it).
Raise(r, error) ==
    /\ pc' = [pc EXCEPT ![r] = "raised"]
    /\ ret' = [ret EXCEPT ![r] = [kind |-> "raised", error |-> error]]

\* return results, guidance
Return(r, res, g) ==
    /\ pc' = [pc EXCEPT ![r] = "done"]
    /\ ret' = [ret EXCEPT ![r] = [kind |-> "returned", results |-> res, guidance |-> g]]

(* --------------------- run_multi_step_simulation ----------------------- *)

\* Entry (lines 81-119): the placeholder return when a dependency is missing,
\* otherwise guidance, the initial state and the state template.
SimStart ==
    /\ pc["sim"] = "idle"
    /\ hpc \in {"off", "baseline"}
    /\ LET a == args["sim"]
       IN  IF ~a.deps THEN
               /\ Return("sim", PlaceholderLedger(a.num_steps, rng), << 10, 20, 30 >>)
               /\ rng' = RngSkip(rng, 16 * a.num_steps)
               /\ UNCHANGED << step, current_fuel, current_pos, state_template,
                               guidance, results, calls >>
           ELSE
               /\ pc' = [pc EXCEPT !["sim"] = "running"]
               /\ guidance' = [guidance EXCEPT !["sim"] =
                                  IF a.oracle = "dummy" THEN << 10, 20, 30 >>
                                  ELSE interpret_instruction(a.instruction)]
               /\ results' = [results EXCEPT !["sim"] = EmptyLedger("sim")]
               /\ current_fuel' = [current_fuel EXCEPT !["sim"] = Fin(StartFuel)]
               /\ current_pos' = [current_pos EXCEPT !["sim"] = << Fin(StartX), Fin(0), Fin(0) >>]
               /\ step' = [step EXCEPT !["sim"] = 0]
               /\ IF fault["sim"].kind = "import"
                  THEN /\ state_template' = NormalVec(rng, 10, 0, 100)
                       /\ rng' = RngSkip(rng, 10)
                  ELSE /\ state_template' = generate_correct_data(rng).state
                       /\ rng' = generate_correct_data(rng).rng
               /\ calls' = [calls EXCEPT !.interpret = @ + 1]
               /\ UNCHANGED ret
    /\ UNCHANGED << args, fault, hpc, report, pending, est, drift, inj, det >>

\* One loop iteration that runs to its appends (lines 121-167).
SimStep ==
    /\ pc["sim"] = "running"
    /\ LoopContinues(step["sim"], args["sim"].num_steps)
    /\ FaultNow("sim") \notin {"score", "oracle"}
    /\ LET a == args["sim"]
           acq == SimAcquire(rng, FaultNow("sim"), a.anomaly_rate, state_template)
       IN  /\ rng' = IF DrawsMove(a.oracle) THEN RngSkip(acq.rng, 6) ELSE acq.rng
           /\ \E anomaly_score \in ScorerOutputs(a.scorer, acq.state) :
              \E move \in Moves(a.oracle, acq.state, guidance["sim"], acq.rng) :
                 FinishStep("sim", acq, IsAnomaly(anomaly_score, a.anomaly_sensitivity),
                            move, FALSE)
    /\ UNCHANGED << args, fault, pc, state_template, guidance, ret, hpc, report,
                    pending, est, drift, inj, det >>

\* detector.decision_function raises (line 141): the exception propagates.
SimScorerRaises ==
    /\ pc["sim"] = "running"
    /\ LoopContinues(step["sim"], args["sim"].num_steps)
    /\ FaultNow("sim") = "score"
    /\ rng' = SimAcquire(rng, "none", args["sim"].anomaly_rate, state_template).rng
    /\ Raise("sim", "scorer")
    /\ UNCHANGED << args, fault, step, current_fuel, current_pos, state_template,
                    guidance, results, hpc, report, pending, est, drift, inj, calls, det >>

\* predict_next_move raises (line 145): the exception propagates.
SimOracleRaises ==
    /\ pc["sim"] = "running"
    /\ LoopContinues(step["sim"], args["sim"].num_steps)
    /\ FaultNow("sim") = "oracle"
    /\ rng' = SimAcquire(rng, "none", args["sim"].anomaly_rate, state_template).rng
    /\ Raise("sim", "oracle")
    /\ calls' = OracleCalled("sim", guidance["sim"])
    /\ UNCHANGED << args, fault, step, current_fuel, current_pos, state_template,
                    guidance, results, hpc, report, pending, est, drift, inj, det >>

\* The loop is exhausted: return results, guidance (line 169).
SimReturn ==
    /\ pc["sim"] = "running"
    /\ ~LoopContinues(step["sim"], args["sim"].num_steps)
    /\ Return("sim", results["sim"], guidance["sim"])
    /\ UNCHANGED << rng, args, fault, step, current_fuel, current_pos, state_template,
                    guidance, results, hpc, report, pending, est, drift, inj, calls, det >>

(* ------------------ run_multi_step_simulation_attack ------------------- *)

\* Entry (lines 414-420); the guidance is an argument.
AtkStart ==
    /\ pc["atk"] = "idle"
    /\ hpc \in {"off", "attacked"}
    /\ pc' = [pc EXCEPT !["atk"] = "running"]
    /\ guidance' = [guidance EXCEPT !["atk"] = args["atk"].guidance]
    /\ results' = [results EXCEPT !["atk"] = EmptyLedger("atk")]
    /\ current_fuel' = [current_fuel EXCEPT !["atk"] = Fin(StartFuel)]
    /\ current_pos' = [current_pos EXCEPT !["atk"] = << Fin(StartX), Fin(0), Fin(0) >>]
    /\ step' = [step EXCEPT !["atk"] = 0]
    /\ UNCHANGED << rng, args, fault, state_template, ret, hpc, report, pending, est,
                    drift, inj, calls, det >>

\* One loop iteration that runs to its appends (lines 422-474).
AtkStep ==
    /\ pc["atk"] = "running"
    /\ LoopContinues(step["atk"], args["atk"].num_steps)
    /\ FaultNow("atk") \notin {"score", "oracle"}
    /\ LET a == args["atk"]
           attack_active == AttackActive(step["atk"], a.attack_start, a.attack_end)
           acq == AtkAcquire(rng, FaultNow("atk"), attack_active)
       IN  /\ rng' = IF DrawsMove(a.oracle) THEN RngSkip(acq.rng, 6) ELSE acq.rng
           /\ \E anomaly_score \in ScorerOutputs(a.scorer, acq.state) :
              \E move \in Moves(a.oracle, acq.state, guidance["atk"], acq.rng) :
                 FinishStep("atk", acq,
                            IF a.scorer = "absent" THEN attack_active
                            ELSE IsAnomaly(anomaly_score, AttackSensitivity),
                            move, attack_active)
    /\ UNCHANGED << args, fault, pc, state_template, guidance, ret, hpc, report,
                    pending, est, drift, inj, det >>

\* detector.decision_function raises (line 442).
AtkScorerRaises ==
    /\ pc["atk"] = "running"
    /\ LoopContinues(step["atk"], args["atk"].num_steps)
    /\ FaultNow("atk") = "score"
    /\ rng' = AtkAcquire(rng, "none",
                         AttackActive(step["atk"], args["atk"].attack_start,
                                      args["atk"].attack_end)).rng
    /\ Raise("atk", "scorer")
    /\ UNCHANGED << args, fault, step, current_fuel, current_pos, state_template,
                    guidance, results, hpc, report, pending, est, drift, inj, calls, det >>

\* predict_next_move raises (line 448).
AtkOracleRaises ==
    /\ pc["atk"] = "running"
    /\ LoopContinues(step["atk"], args["atk"].num_steps)
    /\ FaultNow("atk") = "oracle"
    /\ rng' = AtkAcquire(rng, "none",
                         AttackActive(step["atk"], args["atk"].attack_start,
                                      args["atk"].attack_end)).rng
    /\ Raise("atk", "oracle")
    /\ calls' = OracleCalled("atk", guidance["atk"])
    /\ UNCHANGED << args, fault, step, current_fuel, current_pos, state_template,
                    guidance, results, hpc, report, pending, est, drift, inj, det >>

\* return results, guidance (line 476).
AtkReturn ==
    /\ pc["atk"] = "running"
    /\ ~LoopContinues(step["atk"], args["atk"].num_steps)
    /\ Return("atk", results["atk"], guidance["atk"])
    /\ UNCHANGED << rng, args, fault, step, current_fuel, current_pos, state_template,
                    guidance, results, hpc, report, pending, est, drift, inj, calls, det >>

(* ------------------------- a single run: Spec -------------------------- *)

\* States the generator may be in when the first call is made.
RngStart == {7, 64}

Instructions == { {"approach", "north", "minimal"}, {"south", "fast"} }

\* Never, always, and two rates on either side of the draw that follows the
\* reseeded row (0.81 here).
AnomalyRates == {0, 50, 90, 100}

NoFault == [kind |-> "none", at |-> 0]

\* At most one operation fails per run: nothing, the import of the data
\* generator (every step), or one operation at one step.
FaultPlans(num_steps, kinds) ==
    {NoFault} \cup {[kind |-> k, at |-> j] : k \in kinds, j \in 0..(num_steps - 1)}

NotCalled == [num_steps |-> 0]

\* No AnomalyDetector object is under observation.
NoDetector == [pc |-> "off"]

\* Nothing has called the interpreter or the oracle yet.
NoCalls ==
    [interpret |-> 0, oracle |-> [r \in Runs |-> << >>],
     returned |-> [r \in Runs |-> << >>]]

\* A num_steps for the call without dependencies that is beyond the 200
\* steps the start fuel lasts at the placeholder's 0.5 per step.
LongRun == 202

SimCalls ==
    {[instruction |-> i, num_steps |-> n, anomaly_rate |-> q, anomaly_sensitivity |-> 50,
      deps |-> TRUE, scorer |-> "any", oracle |-> "any"] :
        i \in Instructions, n \in 0..MaxSteps, q \in AnomalyRates}
    \cup
    {[instruction |-> {"south", "fast"}, num_steps |-> n, anomaly_rate |-> 0,
      anomaly_sensitivity |-> 50, deps |-> FALSE, scorer |-> "any", oracle |-> "any"] :
        n \in 0..MaxSteps \cup {LongRun}}

AtkCalls ==
    {[num_steps |-> n, attack_start |-> b, attack_end |-> e, guidance |-> << 100, 0, 80 >>,
      scorer |-> d, oracle |-> d] :
        n \in 0..MaxSteps, b \in 0..MaxSteps, e \in 0..(MaxSteps + 1),
        d \in {"any", "absent"}}

Unset ==
    /\ step = [r \in Runs |-> 0]
    /\ current_fuel = [r \in Runs |-> None]
    /\ current_pos = [r \in Runs |-> << >>]
    /\ state_template = << >>
    /\ guidance = [r \in Runs |-> << >>]
    /\ results = [r \in Runs |-> EmptyLedger(r)]
    /\ ret = [r \in Runs |-> [kind |-> "pending"]]

Init ==
    /\ rng \in RngStart
    /\ hpc = "off"
    /\ report = [kind |-> "none"]
    /\ pending = [r \in Runs |-> [phase |-> "off"]]
    /\ est = [pc |-> "off"]
    /\ drift = << >>
    /\ inj = [pc |-> "off"]
    /\ calls = NoCalls
    /\ det = NoDetector
    /\ Unset
    /\ \/ /\ pc = [r \in Runs |-> IF r = "sim" THEN "idle" ELSE "off"]
          /\ \E a \in SimCalls :
                /\ args = [r \in Runs |-> IF r = "sim" THEN a ELSE NotCalled]
                /\ \E p \in (IF a.deps
                             THEN FaultPlans(a.num_steps, {"generate", "inject", "score", "oracle"})
                                  \cup {[kind |-> "import", at |-> 0]}
                             ELSE {NoFault}) :
                      fault = [r \in Runs |-> IF r = "sim" THEN p ELSE NoFault]
       \/ /\ pc = [r \in Runs |-> IF r = "atk" THEN "idle" ELSE "off"]
          /\ \E a \in AtkCalls :
                /\ args = [r \in Runs |-> IF r = "atk" THEN a ELSE NotCalled]
                /\ \E p \in (IF a.scorer = "absent"
                             THEN {NoFault, [kind |-> "import", at |-> 0]}
                             ELSE FaultPlans(a.num_steps, {"generate", "inject", "score", "oracle"})
                                  \cup {[kind |-> "import", at |-> 0]}) :
                      fault = [r \in Runs |-> IF r = "atk" THEN p ELSE NoFault]

Next ==
    \/ SimStart
    \/ SimStep
    \/ SimScorerRaises
    \/ SimOracleRaises
    \/ SimReturn
    \/ AtkStart
    \/ AtkStep
    \/ AtkScorerRaises
    \/ AtkOracleRaises
    \/ AtkReturn

Spec == Init /\ [][Next]_vars

(* ------------------- run_attack_scenario: SpecHarness ------------------ *)

FitSamples == 100

\* The generator after generate_correct_data(100): reseeded, then twelve
\* columns of FitSamples draws each.
FitGenerator ==
    LET c(s) == RngSkip(s, FitSamples)
    IN  c(c(c(c(c(c(c(c(c(c(c(c(RngSeed(42)))))))))))))

\* np.max over two values: a NaN wins.
XMax(a, b) == IF IsNaN(a) \/ IsNaN(b) THEN NaN ELSE IF XLt(a, b) THEN b ELSE a

\* np.linalg.norm(attacked_pos[i] - baseline_pos[i]) for one row.
Deviation(baseline, attacked, i) ==
    XNorm3([j \in 1..3 |-> XSub(attacked.positions[i][j], baseline.positions[i][j])])

RECURSIVE MaxDeviation(_, _, _, _)
MaxDeviation(baseline, attacked, lo, hi) ==
    IF lo = hi THEN Deviation(baseline, attacked, lo)
    ELSE XMax(Deviation(baseline, attacked, lo), MaxDeviation(baseline, attacked, lo + 1, hi))

RECURSIVE SumDeviation(_, _, _, _)
SumDeviation(baseline, attacked, lo, hi) ==
    IF lo > hi THEN Fin(0)
    ELSE XAdd(Deviation(baseline, attacked, lo), SumDeviation(baseline, attacked, lo + 1, hi))

\* sum(attacked['anomalies'][attack_start:attack_end]) for 0 <= attack_start;
\* the slice stops at the end of the list.
SliceCount(anomalies, attack_start, attack_end) ==
    Cardinality({i \in (attack_start + 1)..attack_end :
                    i <= Len(anomalies) /\ anomalies[i]})

\* The "{x:.1f}" rendering of 100 * a / n, in tenths of a percent (n # 0).
PercentTenths(a, n) ==
    LET q == (2000 * a + Abs(n)) \div (2 * Abs(n))
    IN  IF n > 0 THEN q ELSE -q

\* generate_attack_summary: the figures of the report, or the exception that
\* leaves the function.  array_flags says that the ledger's anomaly flags are
\* one-element arrays (the DummyDetector's scores are), which "{...:.1f}"
\* cannot render.
generate_attack_summary(baseline, attacked, attack_start, attack_end, g, total_steps, array_flags) ==
    LET attack_steps == attack_end - attack_start
        n == Len(attacked.anomalies)
        in_range == attack_start < n /\ attack_end <= n
        attack_anomalies ==
            IF in_range THEN SliceCount(attacked.anomalies, attack_start, attack_end) ELSE 0
        nonempty == in_range /\ attack_start < attack_end
        max_deviation ==
            IF nonempty THEN MaxDeviation(baseline, attacked, attack_start + 1, attack_end)
            ELSE Fin(0)
        avg_deviation ==
            IF nonempty
            THEN XScale(SumDeviation(baseline, attacked, attack_start + 1, attack_end),
                        1, attack_steps)
            ELSE Fin(0)
    IN  IF Len(baseline.fuel_levels) = 0 \/ Len(attacked.fuel_levels) = 0
        THEN [kind |-> "raised", error |-> "IndexError"]
        ELSE IF attack_steps = 0
        THEN [kind |-> "raised", error |-> "ZeroDivisionError"]
        ELSE IF array_flags /\ nonempty
        THEN [kind |-> "raised", error |-> "TypeError"]
        ELSE [kind |-> "summary",
              total_steps |-> total_steps,
              attack_steps |-> attack_steps,
              attack_anomalies |-> attack_anomalies,
              detection_rate |-> PercentTenths(attack_anomalies, attack_steps),
              max_deviation |-> max_deviation,
              avg_deviation |-> avg_deviation,
              baseline_final_fuel |-> baseline.fuel_levels[Len(baseline.fuel_levels)],
              attacked_final_fuel |-> attacked.fuel_levels[n],
              attack_success |-> IF attack_anomalies > 0 THEN "BLOCKED"
                                 ELSE "POTENTIAL BREACH",
              resilience |-> IF XLt(max_deviation, Fin(100000)) THEN "ROBUST"
                             ELSE "COMPROMISED",
              overall |-> IF attack_steps > 0 /\ 10 * attack_anomalies > 7 * attack_steps
                          THEN "SECURE"
                          ELSE IF attack_steps > 0 THEN "VULNERABLE"
                          ELSE "NO ATTACK DATA"]

\* Lines 354-390: the imports and the detector's fit on
\* generate_correct_data(100), or the dummy dependencies when an import fails
\* (then nothing was drawn).  Phase 1 is entered.
HarnessBegin ==
    /\ hpc = "begin"
    /\ hpc' = "baseline"
    /\ pc' = [pc EXCEPT !["sim"] = "idle"]
    /\ rng' = IF args["sim"].oracle = "dummy" THEN rng ELSE FitGenerator
    /\ UNCHANGED << args, fault, step, current_fuel, current_pos, state_template,
                    guidance, results, ret, report, pending, est, drift, inj, calls, det >>

\* The attacked run given the guidance of the (empty) attack_instruction
\* instead of the baseline's.
GuidanceOfAttackInstruction(baseline_return) == interpret_instruction({})

\* baseline_results, guidance = run_multi_step_simulation(...): the guidance
\* the harness keeps and passes on (lines 394 and 399).
HandedGuidance(baseline_return) == baseline_return.guidance

\* Lines 394-400: the baseline has returned; its guidance is handed to the
\* attacked run.
HarnessAttack ==
    /\ hpc = "baseline"
    /\ pc["sim"] = "done"
    /\ hpc' = "attacked"
    /\ pc' = [pc EXCEPT !["atk"] = "idle"]
    /\ args' = [args EXCEPT !["atk"].guidance = HandedGuidance(ret["sim"])]
    /\ UNCHANGED << rng, fault, step, current_fuel, current_pos, state_template,
                    guidance, results, ret, report, pending, est, drift, inj, calls, det >>

\* Lines 403-405: the three figures.  With empty ledgers the position array
\* has one dimension and baseline_pos[:, 0] raises IndexError.
HarnessFigures ==
    /\ hpc = "attacked"
    /\ pc["atk"] = "done"
    /\ IF Len(ret["sim"].results.positions) = 0
       THEN /\ hpc' = "raised"
            /\ report' = [kind |-> "raised", error |-> "IndexError"]
       ELSE /\ hpc' = "summary"
            /\ UNCHANGED report
    /\ UNCHANGED << rng, args, fault, pc, step, current_fuel, current_pos, state_template,
                    guidance, results, ret, pending, est, drift, inj, calls, det >>

\* Lines 408-410: the summary is made and returned, or its exception leaves
\* run_attack_scenario.
HarnessSummary ==
    /\ hpc = "summary"
    /\ report' = generate_attack_summary(ret["sim"].results, ret["atk"].results,
                                         args["atk"].attack_start, args["atk"].attack_end,
                                         ret["sim"].guidance, args["atk"].num_steps,
                                         args["atk"].scorer = "dummy")
    /\ hpc' = IF report'.kind = "summary" THEN "done" ELSE "raised"
    /\ UNCHANGED << rng, args, fault, pc, step, current_fuel, current_pos, state_template,
                    guidance, results, ret, pending, est, drift, inj, calls, det >>

\* An exception of either run leaves run_attack_scenario as well.
HarnessPropagates ==
    /\ \/ hpc = "baseline" /\ pc["sim"] = "raised"
       \/ hpc = "attacked" /\ pc["atk"] = "raised"
    /\ hpc' = "raised"
    /\ report' = [kind |-> "raised",
                  error |-> IF hpc = "baseline" THEN ret["sim"].error ELSE ret["atk"].error]
    /\ UNCHANGED << rng, args, fault, pc, step, current_fuel, current_pos, state_template,
                    guidance, results, ret, pending, est, drift, inj, calls, det >>

\* The dependencies run_attack_scenario ends up with: real ones (a fitted
\* scorer and a pure oracle) or the dummies.
HarnessDeps ==
    {[scorer |-> "hazard", oracle |-> "velocity"],
     [scorer |-> "always", oracle |-> "wild"],
     [scorer |-> "never", oracle |-> "small"],
     [scorer |-> "dummy", oracle |-> "dummy"]}

\* Which operation fails, per run, in a scenario.
HarnessFaults(total_steps, d) ==
    IF d.oracle = "dummy"
    THEN {[r \in Runs |-> NoFault], [r \in Runs |-> [kind |-> "import", at |-> 0]]}
    ELSE {[r \in Runs |-> IF r = q THEN p ELSE NoFault] :
            q \in Runs, p \in FaultPlans(total_steps, {"score", "oracle"})}

InitHarness ==
    /\ rng \in RngStart
    /\ hpc = "begin"
    /\ report = [kind |-> "none"]
    /\ pending = [r \in Runs |-> [phase |-> "off"]]
    /\ est = [pc |-> "off"]
    /\ drift = << >>
    /\ inj = [pc |-> "off"]
    /\ calls = NoCalls
    /\ det = NoDetector
    /\ Unset
    /\ pc = [r \in Runs |-> "off"]
    /\ \E total_steps \in 0..MaxSteps, attack_start \in 0..MaxSteps,
         attack_end \in 0..(MaxSteps + 1), d \in HarnessDeps :
          /\ args = [r \in Runs |->
                IF r = "sim"
                THEN [instruction |-> {"approach", "north", "minimal"},
                      num_steps |-> total_steps, anomaly_rate |-> 0,
                      anomaly_sensitivity |-> 50, deps |-> TRUE,
                      scorer |-> d.scorer, oracle |-> d.oracle]
                ELSE [num_steps |-> total_steps, attack_start |-> attack_start,
                      attack_end |-> attack_end, guidance |-> << >>,
                      scorer |-> d.scorer, oracle |-> d.oracle]]
          /\ fault \in HarnessFaults(total_steps, d)

NextHarness ==
    \/ HarnessBegin
    \/ SimStart
    \/ SimStep
    \/ SimScorerRaises
    \/ SimOracleRaises
    \/ SimReturn
    \/ HarnessAttack
    \/ AtkStart
    \/ AtkStep
    \/ AtkScorerRaises
    \/ AtkOracleRaises
    \/ AtkReturn
    \/ HarnessFigures
    \/ HarnessSummary
    \/ HarnessPropagates

SpecHarness == InitHarness /\ [][NextHarness]_vars

(* ------------- both runs at the same time: SpecPar --------------------- *)

\* The two loops run as two threads of one process and so draw from the one
\* process-wide generator.  A step is split where a thread can be preempted
\* between its uses of the generator: np.random.seed(42), the draws of the
\* row, the draw or the corruption that follows, and the rest of the step.

\* np.random.seed(42) at the top of generate_correct_data.
ParSeed(r) ==
    /\ pc[r] = "running"
    /\ LoopContinues(step[r], args[r].num_steps)
    /\ pending[r].phase = "off"
    /\ rng' = RngSeed(42)
    /\ pending' = [pending EXCEPT ![r] = [phase |-> "seeded"]]
    /\ UNCHANGED << args, fault, pc, step, current_fuel, current_pos, state_template,
                    guidance, results, ret, hpc, report, est, drift, inj, calls, det >>

\* The draws of the row, from whatever state the generator is in by now.
ParSample(r) ==
    /\ pending[r].phase = "seeded"
    /\ LET g == DrawRow(rng)
       IN  /\ rng' = g.rng
           /\ pending' = [pending EXCEPT ![r] = [phase |-> "sampled", state |-> g.state]]
    /\ UNCHANGED << args, fault, pc, step, current_fuel, current_pos, state_template,
                    guidance, results, ret, hpc, report, est, drift, inj, calls, det >>

\* The baseline's np.random.random() (and injection below anomaly_rate), the
\* attacked run's inject_fake_data inside the window.
ParPerturb(r) ==
    /\ pending[r].phase = "sampled"
    /\ LET g == [state |-> pending[r].state, rng |-> rng]
           acq == IF r = "sim"
                  THEN SimPerturb(g, "none", args[r].anomaly_rate, state_template)
                  ELSE AtkPerturb(g, "none",
                                  AttackActive(step[r], args[r].attack_start,
                                               args[r].attack_end))
       IN  /\ rng' = acq.rng
           /\ pending' = [pending EXCEPT ![r] = [phase |-> "ready", state |-> acq.state]]
    /\ UNCHANGED << args, fault, pc, step, current_fuel, current_pos, state_template,
                    guidance, results, ret, hpc, report, est, drift, inj, calls, det >>

\* Scoring, the oracle's move and the rest of the step.
ParFinish(r) ==
    /\ pending[r].phase = "ready"
    /\ LET a == args[r]
           acq == [state |-> pending[r].state]
           attack_active == r = "atk" /\ AttackActive(step[r], a.attack_start, a.attack_end)
       IN  \E anomaly_score \in ScorerOutputs(a.scorer, acq.state) :
           \E move \in OracleOutputs(a.oracle, acq.state, guidance[r]) :
              FinishStep(r, acq,
                         IsAnomaly(anomaly_score,
                                   IF r = "sim" THEN a.anomaly_sensitivity
                                   ELSE AttackSensitivity),
                         move, attack_active)
    /\ pending' = [pending EXCEPT ![r] = [phase |-> "off"]]
    /\ UNCHANGED << rng, args, fault, pc, state_template, guidance, ret, hpc, report,
                    est, drift, inj, det >>

\* A fitted scorer and a pure oracle.
ParDeps ==
    {[scorer |-> "hazard", oracle |-> "velocity"],
     [scorer |-> "always", oracle |-> "small"]}

InitPar ==
    /\ rng \in RngStart
    /\ hpc = "off"
    /\ report = [kind |-> "none"]
    /\ pending = [r \in Runs |-> [phase |-> "off"]]
    /\ est = [pc |-> "off"]
    /\ drift = << >>
    /\ inj = [pc |-> "off"]
    /\ calls = NoCalls
    /\ det = NoDetector
    /\ Unset
    /\ pc = [r \in Runs |-> "idle"]
    /\ fault = [r \in Runs |-> NoFault]
    /\ \E total_steps \in 1..MaxSteps, attack_start \in 0..MaxSteps,
         attack_end \in 0..(MaxSteps + 1), d \in ParDeps :
          args = [r \in Runs |->
                IF r = "sim"
                THEN [instruction |-> {"approach", "north", "minimal"},
                      num_steps |-> total_steps, anomaly_rate |-> 0,
                      anomaly_sensitivity |-> 50, deps |-> TRUE,
                      scorer |-> d.scorer, oracle |-> d.oracle]
                ELSE [num_steps |-> total_steps, attack_start |-> attack_start,
                      attack_end |-> attack_end,
                      guidance |-> interpret_instruction({"approach", "north", "minimal"}),
                      scorer |-> d.scorer, oracle |-> d.oracle]]

NextPar ==
    \/ SimStart
    \/ AtkStart
    \/ \E r \in Runs : ParSeed(r)
    \/ \E r \in Runs : ParSample(r)
    \/ \E r \in Runs : ParPerturb(r)
    \/ \E r \in Runs : ParFinish(r)
    \/ SimReturn
    \/ AtkReturn

SpecPar == InitPar /\ [][NextPar]_vars

(* ------------------ direct calls of the estimator ---------------------- *)

\* Positions in hundredths of a km, each component a multiple of 0.1 km:
\* inside, on and outside the 1000 km sphere, far away (the start position and
\* four million km out), and not finite.
EstimatorPositions ==
    { << Fin(0), Fin(0), Fin(0) >>,
      << Fin(99990), Fin(0), Fin(0) >>,
      << Fin(-60000), Fin(79990), Fin(0) >>,
      << Fin(60000), Fin(80000), Fin(0) >>,
      << Fin(57730), Fin(57730), Fin(57730) >>,
      << Fin(57740), Fin(57740), Fin(57740) >>,
      << Fin(100000), Fin(0), Fin(0) >>,
      << Fin(0), Fin(0), Fin(-120000) >>,
      << Fin(StartX), Fin(0), Fin(0) >>,
      << Fin(400000000), Fin(0), Fin(0) >>,
      << NaN, Fin(0), Fin(0) >>,
      << Fin(0), PosInf, Fin(0) >> }

\* Velocities in hundredths of a km/s; the last one is malformed (two
\* components).
EstimatorVelocities ==
    { << Fin(0), Fin(0), Fin(0) >>,
      << Fin(-300), Fin(0), Fin(0) >>,
      << Fin(-1), Fin(0), Fin(0) >>,
      << Fin(1200), Fin(-400), Fin(100) >>,
      << Fin(-100000), Fin(0), Fin(0) >>,
      << NaN, Fin(0), Fin(0) >>,
      << PosInf, Fin(0), NegInf >>,
      << Fin(100), Fin(100) >> }

EstimatorFuels == {Fin(0), Fin(50), Fin(StartFuel), Fin(-500), Fin(25000), NaN, PosInf}

\* One call of calculate_time_to_destination from outside the loops.
EstimateCall ==
    /\ est.pc = "idle"
    /\ \E p \in EstimatorPositions, v \in EstimatorVelocities, f \in EstimatorFuels :
          est' = [pc |-> "returned", current_pos |-> p, current_velocity |-> v,
                  fuel_level |-> f, result |-> calculate_time_to_destination(p, v, f)]
    /\ UNCHANGED << rng, args, fault, pc, step, current_fuel, current_pos, state_template,
                    guidance, results, ret, hpc, report, pending, drift, inj, calls, det >>

InitTime ==
    /\ rng \in RngStart
    /\ hpc = "off"
    /\ report = [kind |-> "none"]
    /\ pending = [r \in Runs |-> [phase |-> "off"]]
    /\ est = [pc |-> "idle"]
    /\ drift = << >>
    /\ inj = [pc |-> "off"]
    /\ calls = NoCalls
    /\ det = NoDetector
    /\ Unset
    /\ pc = [r \in Runs |-> "off"]
    /\ args = [r \in Runs |-> NotCalled]
    /\ fault = [r \in Runs |-> NoFault]

NextTime == EstimateCall

SpecTime == InitTime /\ [][NextTime]_vars

(* ------------------------ drift detector: SpecDrift -------------------- *)

\* src/ai/utils/drift.py.  A data array is a sequence of floats in hundredths
\* (a None element stands for an entry NumPy cannot treat as a number).
\* Scores, p-values and thresholds are in millionths; logarithms are in
\* thousandths and accurate to about 0.005.

Bins == 10
Significance == 50000
PsiSmoothing == 1

RECURSIVE Pow2Floor(_)
\* The largest power of two that is <= n, for n >= 1.
Pow2Floor(n) == IF n < 2 THEN 1 ELSE 2 * Pow2Floor(n \div 2)

RECURSIVE Log2Floor(_)
Log2Floor(n) == IF n < 2 THEN 0 ELSE 1 + Log2Floor(n \div 2)

RECURSIVE LnMilli(_)
\* np.log(n) for an integer n >= 1, in thousandths: n = m * 2^e with m in
\* [1, 2), ln m = 2 (z + z^3/3 + z^5/5) for z = (m - 1) / (m + 1).
LnMilli(n) ==
    IF n >= 262144 THEN 693 + LnMilli(n \div 2)
    ELSE LET p2 == Pow2Floor(n)
             z == ((n - p2) * 10000) \div (n + p2)
             z3 == (((z * z) \div 10000) * z) \div 10000
             z5 == (((z3 * z) \div 10000) * z) \div 10000
         IN  (Log2Floor(n) * 6931 + 2 * (z + z3 \div 3 + z5 \div 5)) \div 10

\* Sum of a sequence of floats (np.sum): a NaN makes the sum NaN.
RECURSIVE XSum(_)
XSum(s) == IF Len(s) = 0 THEN Fin(0) ELSE XAdd(Head(s), XSum(Tail(s)))

RECURSIVE IntSum(_)
IntSum(s) == IF Len(s) = 0 THEN 0 ELSE Head(s) + IntSum(Tail(s))

\* np.isfinite raises TypeError on an array that holds a non-number.
NonNumeric(data) == \E i \in 1..Len(data) : data[i].k = "none"

\* data[np.isfinite(data)]
FiniteValues(data) == SelectSeq(data, IsFin)

\* The range np.histogram gives the bins=10 call: [min, max] of the data, one
\* unit wide around the value when min = max, [0, 1] for an empty array.
HistRange(data) ==
    IF Len(data) = 0 THEN [lo |-> 0, hi |-> 100]
    ELSE LET vals == {data[i].v : i \in 1..Len(data)}
             lo == CHOOSE x \in vals : \A y \in vals : x <= y
             hi == CHOOSE x \in vals : \A y \in vals : y <= x
         IN  IF lo = hi THEN [lo |-> lo - 50, hi |-> hi + 50]
             ELSE [lo |-> lo, hi |-> hi]

\* The bin (1..Bins) of value x for Bins equal bins over rg, the last bin
\* closed on the right; 0 for a value outside the range, which is not counted.
BinOf(x, rg) ==
    IF x < rg.lo \/ x > rg.hi THEN 0
    ELSE IF x = rg.hi THEN Bins
    ELSE ((x - rg.lo) * Bins) \div (rg.hi - rg.lo) + 1

\* The counts of np.histogram(data, bins=edges).
BinCounts(data, rg) ==
    [b \in 1..Bins |-> Cardinality({i \in 1..Len(data) : BinOf(data[i].v, rg) = b})]

\* density=True: count / bin width / number of counted values, in millionths;
\* 0 / 0 = NaN in every bin when no value was counted.
Density(counts, rg) ==
    LET total == IntSum(counts)
    IN  [b \in 1..Bins |->
            IF total = 0 THEN NaN
            ELSE Fin(((1000 * counts[b]) \div total) * (1000000 \div (rg.hi - rg.lo)))]

\* One term of the PSI sum, (curr - ref) * np.log(curr / ref), in millionths.
PsiTerm(curr, ref) ==
    IF IsNaN(curr) \/ IsNaN(ref) THEN NaN
    ELSE Fin(TDiv(curr.v - ref.v, 1000) * (LnMilli(curr.v) - LnMilli(ref.v)))

\* calculate_psi: both histograms on the reference's bin edges, the smoothing
\* constant added to every bin.
calculate_psi(current_data, reference_data) ==
    LET rg == HistRange(reference_data)
        ref_hist == Density(BinCounts(reference_data, rg), rg)
        curr_hist == Density(BinCounts(current_data, rg), rg)
    IN  XSum([b \in 1..Bins |->
                PsiTerm(XAdd(curr_hist[b], Fin(PsiSmoothing)),
                        XAdd(ref_hist[b], Fin(PsiSmoothing)))])

\* One term of a KL sum, p * np.log((p + 1e-10) / (m + 1e-10)), in millionths,
\* for p = a / n and the midpoint m = (a / n + b / k) / 2.  The smoothing
\* constant is below the resolution: a bin with a = 0 contributes 0.
KlTerm(a, n, b, k) ==
    IF a = 0 THEN 0
    ELSE TDiv(1000 * a * (LnMilli(2 * a * k) - LnMilli(a * k + b * n)), n)

\* calculate_js_divergence: the histograms as probabilities, the mean of the
\* two KL divergences from the midpoint distribution.
calculate_js_divergence(current_data, reference_data) ==
    LET rg == HistRange(reference_data)
        ref == BinCounts(reference_data, rg)
        curr == BinCounts(current_data, rg)
        n == IntSum(ref)
        k == IntSum(curr)
    IN  IF n = 0 \/ k = 0 THEN NaN
        ELSE Fin(TDiv(IntSum([b \in 1..Bins |-> KlTerm(ref[b], n, curr[b], k)])
                      + IntSum([b \in 1..Bins |-> KlTerm(curr[b], k, ref[b], n)]), 2))

\* n * m times the distance of the two empirical distribution functions at x.
CdfGap(x, d1, d2) ==
    LET below(d) == Cardinality({i \in 1..Len(d) : d[i].v <= x})
    IN  Abs(Len(d2) * below(d1) - Len(d1) * below(d2))

\* n * m times the two-sample Kolmogorov-Smirnov statistic.
KsGap(d1, d2) ==
    LET pts == {d1[i].v : i \in 1..Len(d1)} \cup {d2[i].v : i \in 1..Len(d2)}
    IN  CHOOSE h \in {CdfGap(x, d1, d2) : x \in pts} :
            \A x \in pts : CdfGap(x, d1, d2) <= h

RECURSIVE PathsWithin(_, _, _, _, _)
\* The lattice paths from (i, j) to (n, m) on which |i * m - j * n| stays
\* below h: the orderings of the pooled sample whose statistic is below h.
PathsWithin(i, j, n, m, h) ==
    IF Abs(i * m - j * n) >= h THEN 0
    ELSE IF i = n /\ j = m THEN 1
    ELSE (IF i < n THEN PathsWithin(i + 1, j, n, m, h) ELSE 0)
         + (IF j < m THEN PathsWithin(i, j + 1, n, m, h) ELSE 0)

\* stats.ks_2samp on two non-empty samples: the statistic and the exact
\* two-sided p-value, the share of orderings whose statistic is at least the
\* observed one.
ks_2samp(d1, d2) ==
    LET n == Len(d1)
        m == Len(d2)
        h == KsGap(d1, d2)
        all == PathsWithin(0, 0, n, m, n * m + 1)
        within == PathsWithin(0, 0, n, m, h)
    IN  [ks_stat |-> Fin((1000000 * h) \div (n * m)),
         p_value |-> Fin((1000000 * (all - within)) \div all)]

\* score >= threshold, which also fires when the score equals the threshold.
ExceedsOrEquals(score, threshold) == XLe(threshold, score)

\* score > threshold (lines 44 and 63); False for a NaN score.
Exceeds(score, threshold) == XGt(score, threshold)

\* The decision rule with the KS branch also driven by the threshold.
DriftDecisionByThreshold(method, score, p_value, threshold) ==
    Exceeds(score, threshold)

\* drift_detected of lines 44, 51 and 63.
DriftDecision(method, score, p_value, threshold) ==
    IF method = "ks" THEN XLt(p_value, Fin(Significance))
    ELSE Exceeds(score, threshold)

\* The empty-array test on the current data alone.
EmptyCurrentOnly(current_data, reference_data) == Len(current_data) = 0

\* len(current_data) == 0 or len(reference_data) == 0
EmptyArrays(current_data, reference_data) ==
    Len(current_data) = 0 \/ Len(reference_data) = 0

\* A dispatch that falls back to PSI for a method it does not know.
MethodBranchDefaulting(method) ==
    IF method \in {"psi", "ks", "js"} THEN method ELSE "psi"

\* The branch of the if/elif chain of lines 41-71 that a method takes.
MethodBranch(method) ==
    IF method \in {"psi", "ks", "js"} THEN method ELSE "else"

\* The report of the four early returns (lines 34-39, 53-58, 66-71, 83-88).
ErrorReport(method, error) ==
    [drift_detected |-> FALSE, score |-> Fin(0), method |-> method, error |-> error]

\* detect_drift.
detect_drift(current_data, reference_data, method, threshold) ==
    IF NonNumeric(current_data) \/ NonNumeric(reference_data)
    THEN ErrorReport(method, "ufunc 'isfinite' not supported for the input types")
    ELSE
        LET current == FiniteValues(current_data)
            reference == FiniteValues(reference_data)
            branch == MethodBranch(method)
            ks == IF Len(current) = 0 \/ Len(reference) = 0
                  THEN [ks_stat |-> None, p_value |-> None]
                  ELSE ks_2samp(current, reference)
            score == CASE branch = "psi" -> calculate_psi(current, reference)
                       [] branch = "ks" -> ks.ks_stat
                       [] branch = "js" -> calculate_js_divergence(current, reference)
                       [] OTHER -> None
        IN  IF EmptyArrays(current, reference)
            THEN ErrorReport(method, "Empty data arrays")
            ELSE IF branch = "else"
            THEN ErrorReport(method, "Unknown method: " \o method)
            ELSE IF branch = "ks" /\ ks.ks_stat = None
            THEN ErrorReport(method, "KS test failed: Data passed to ks_2samp must not be empty")
            ELSE [drift_detected |-> DriftDecision(branch, score, ks.p_value, threshold),
                  score |-> score,
                  method |-> method,
                  threshold |-> threshold,
                  current_samples |-> Len(current),
                  reference_samples |-> Len(reference)]

\* The data arrays the calls draw from: a spread sample, the same sample
\* shifted clear of it, a constant sample, a sample with NaN and infinite
\* entries, one with only such entries, the empty array, one holding a
\* non-number.
DriftSamples ==
    { << Fin(0), Fin(100), Fin(200), Fin(300) >>,
      << Fin(1000), Fin(1100), Fin(1200), Fin(1300) >>,
      << Fin(500), Fin(500), Fin(500), Fin(500) >>,
      << Fin(100), NaN, Fin(250), PosInf >>,
      << NaN, NegInf >>,
      << >>,
      << Fin(100), None >> }

\* The three known methods, an unknown one and a known one in upper case.
DriftMethods == {"psi", "ks", "js", "wasserstein", "PSI"}

\* Thresholds: the default 0.1, zero and a negative one.
DriftThresholds == {Fin(100000), Fin(0), Fin(-100000)}

\* How many calls of detect_drift a behaviour holds.
MaxCalls == 2

\* A first call of detect_drift, on any two arrays.
DriftCall ==
    /\ Len(drift) = 0
    /\ Len(drift) < MaxCalls
    /\ \E c \in DriftSamples, r \in DriftSamples, m \in DriftMethods,
         t \in DriftThresholds :
          drift' = Append(drift, [current_data |-> c, reference_data |-> r,
                                  method |-> m, threshold |-> t,
                                  report |-> detect_drift(c, r, m, t)])
    /\ UNCHANGED << rng, args, fault, pc, step, current_fuel, current_pos, state_template,
                    guidance, results, ret, hpc, report, pending, est, inj, calls, det >>

\* A further call on the arrays of the first one, with any method and
\* threshold.  detect_drift keeps nothing between calls, so calls on other
\* arrays add no behaviour.
DriftRecall ==
    /\ Len(drift) > 0
    /\ Len(drift) < MaxCalls
    /\ \E m \in DriftMethods, t \in DriftThresholds :
          LET c == drift[1].current_data
              r == drift[1].reference_data
          IN  drift' = Append(drift, [current_data |-> c, reference_data |-> r,
                                      method |-> m, threshold |-> t,
                                      report |-> detect_drift(c, r, m, t)])
    /\ UNCHANGED << rng, args, fault, pc, step, current_fuel, current_pos, state_template,
                    guidance, results, ret, hpc, report, pending, est, inj, calls, det >>

InitDrift ==
    /\ rng \in RngStart
    /\ hpc = "off"
    /\ report = [kind |-> "none"]
    /\ pending = [r \in Runs |-> [phase |-> "off"]]
    /\ est = [pc |-> "off"]
    /\ drift = << >>
    /\ inj = [pc |-> "off"]
    /\ calls = NoCalls
    /\ det = NoDetector
    /\ Unset
    /\ pc = [r \in Runs |-> "off"]
    /\ args = [r \in Runs |-> NotCalled]
    /\ fault = [r \in Runs |-> NoFault]

NextDrift ==
    \/ DriftCall
    \/ DriftRecall

SpecDrift == InitDrift /\ [][NextDrift]_vars

(* ---------------- direct calls of the corruptor: SpecInject ------------- *)

\* How many rows the tables handed to inject_fake_data have at most.
MaxRows == 3

\* Rows of a table: the nominal sample and two samples drawn without the
\* reseeding.
TableRows == {DrawRow(RngSeed(42)).state, DrawRow(7).state, DrawRow(64).state}

RECURSIVE TablesOfLength(_)
TablesOfLength(n) ==
    IF n = 0 THEN {<< >>}
    ELSE {Append(t, row) : t \in TablesOfLength(n - 1), row \in TableRows}

\* Corruption rates in percent, both ends of [0, 1] included.
CorruptionRates == {0, 20, 50, 67, 100}

\* States of the generator at the call.
InjectRngStart == {7, 64, 0, 33, 99}

\* One call of inject_fake_data from outside the loops.
InjectCall ==
    /\ inj.pc = "idle"
    /\ \E n \in 0..MaxRows :
       \E df \in TablesOfLength(n), corruption_rate \in CorruptionRates :
          LET out == inject_fake_data(df, rng, corruption_rate)
          IN  /\ inj' = [pc |-> "returned", input |-> df,
                         corruption_rate |-> corruption_rate,
                         df |-> out.df, returned |-> out.df_copy]
              /\ rng' = out.rng
    /\ UNCHANGED << args, fault, pc, step, current_fuel, current_pos, state_template,
                    guidance, results, ret, hpc, report, pending, est, drift, calls, det >>

InitInject ==
    /\ rng \in InjectRngStart
    /\ hpc = "off"
    /\ report = [kind |-> "none"]
    /\ pending = [r \in Runs |-> [phase |-> "off"]]
    /\ est = [pc |-> "off"]
    /\ drift = << >>
    /\ inj = [pc |-> "idle"]
    /\ calls = NoCalls
    /\ det = NoDetector
    /\ Unset
    /\ pc = [r \in Runs |-> "off"]
    /\ args = [r \in Runs |-> NotCalled]
    /\ fault = [r \in Runs |-> NoFault]

NextInject == InjectCall

SpecInject == InitInject /\ [][NextInject]_vars

(* -------------------- AnomalyDetector: SpecDetector -------------------- *)

\* src/ai/modules/anomaly_detector.py: a wrapper around scikit-learn's
\* IsolationForest.  The forest is reduced to what the wrapper's callers can
\* observe: whether it has been fitted, and for a fitted forest a score per
\* point.  The score is a stand-in for the forest's path lengths: a point
\* outside the reference batch's range in some feature is isolated early
\* (-0.70), any other point late (-0.40); offset_ is -0.50.

MaxOps == 3

Raised(error) == [kind |-> "raised", error |-> error]

Returned(value) == [kind |-> "returned", value |-> value]

\* self.model = IsolationForest(contamination=0.1, random_state=42)
NewForest == [fitted |-> FALSE, reference |-> << >>]

\* Some feature of x is below or above every row of the batch.
Outlying(reference, x) ==
    \E j \in 1..Len(x) :
        \/ \A i \in 1..Len(reference) : x[j] < reference[i][j]
        \/ \A i \in 1..Len(reference) : x[j] > reference[i][j]

\* A forest that takes itself for fitted whatever happened before.
check_skipped(model) == TRUE

\* sklearn's check_is_fitted: the forest has the attributes that fit makes.
check_is_fitted(model) == model.fitted

\* IsolationForest.fit: input validation rejects a batch without samples
\* and leaves the forest as it was; otherwise the forest is built on the batch.
forest_fit(model, data) ==
    IF Len(data) = 0
    THEN [model |-> model, outcome |-> Raised("ValueError")]
    ELSE [model |-> [fitted |-> TRUE, reference |-> data], outcome |-> Returned(None)]

\* IsolationForest.score_samples
forest_score_samples(model, x) ==
    IF ~check_is_fitted(model) THEN Raised("NotFittedError")
    ELSE Returned(IF Outlying(model.reference, x) THEN -70 ELSE -40)

\* IsolationForest.decision_function: score_samples(X) - offset_
forest_decision_function(model, x) ==
    LET s == forest_score_samples(model, x)
    IN  IF s.kind = "raised" THEN s ELSE Returned(s.value + 50)

\* IsolationForest.predict: -1 where the decision function is negative.
forest_predict(model, x) ==
    IF ~check_is_fitted(model) THEN Raised("NotFittedError")
    ELSE LET d == forest_decision_function(model, x)
         IN  IF d.kind = "raised" THEN d
             ELSE Returned(IF d.value < 0 THEN -1 ELSE 1)

\* AnomalyDetector.fit (line 18)
fit(self, data) == forest_fit(self, data)

\* AnomalyDetector.detect (line 29): the prediction for the one reshaped point.
detect(self, data_point) == forest_predict(self, data_point)

\* AnomalyDetector.decision_function (line 40)
decision_function(self, data_point) == forest_decision_function(self, data_point)

\* AnomalyDetector.score_samples (line 51)
score_samples(self, data_point) == forest_score_samples(self, data_point)

\* Reference batches: no sample at all, and two nominal rows.
DetectorBatches ==
    { << >>, << DrawRow(RngSeed(42)).state, DrawRow(7).state >> }

\* Points to score: the nominal sample, a corrupted one, and a nominal row of
\* another generator state.
DetectorPoints ==
    { DrawRow(RngSeed(42)).state,
      CorruptRow(DrawRow(RngSeed(42)).state, 5).state,
      DrawRow(64).state }

\* A call on the object is logged with its outcome.
Logged(op, arg, outcome, model) ==
    [det EXCEPT !.model = model,
                !.log = Append(@, [op |-> op, arg |-> arg, outcome |-> outcome])]

DetectorFit ==
    /\ det.pc = "live"
    /\ Len(det.log) < MaxOps
    /\ \E data \in DetectorBatches :
          LET f == fit(det.model, data)
          IN  det' = Logged("fit", data, f.outcome, f.model)
    /\ UNCHANGED << rng, args, fault, pc, step, current_fuel, current_pos, state_template,
                    guidance, results, ret, hpc, report, pending, est, drift, inj, calls >>

DetectorDetect ==
    /\ det.pc = "live"
    /\ Len(det.log) < MaxOps
    /\ \E x \in DetectorPoints :
          det' = Logged("detect", x, detect(det.model, x), det.model)
    /\ UNCHANGED << rng, args, fault, pc, step, current_fuel, current_pos, state_template,
                    guidance, results, ret, hpc, report, pending, est, drift, inj, calls >>

DetectorDecision ==
    /\ det.pc = "live"
    /\ Len(det.log) < MaxOps
    /\ \E x \in DetectorPoints :
          det' = Logged("decision_function", x, decision_function(det.model, x),
                        det.model)
    /\ UNCHANGED << rng, args, fault, pc, step, current_fuel, current_pos, state_template,
                    guidance, results, ret, hpc, report, pending, est, drift, inj, calls >>

DetectorScore ==
    /\ det.pc = "live"
    /\ Len(det.log) < MaxOps
    /\ \E x \in DetectorPoints :
          det' = Logged("score_samples", x, score_samples(det.model, x), det.model)
    /\ UNCHANGED << rng, args, fault, pc, step, current_fuel, current_pos, state_template,
                    guidance, results, ret, hpc, report, pending, est, drift, inj, calls >>

\* After AnomalyDetector(): the forest exists and nothing was called on it.
InitDetector ==
    /\ rng \in RngStart
    /\ hpc = "off"
    /\ report = [kind |-> "none"]
    /\ pending = [r \in Runs |-> [phase |-> "off"]]
    /\ est = [pc |-> "off"]
    /\ drift = << >>
    /\ inj = [pc |-> "off"]
    /\ calls = NoCalls
    /\ det = [pc |-> "live", model |-> NewForest, log |-> << >>]
    /\ Unset
    /\ pc = [r \in Runs |-> "off"]
    /\ args = [r \in Runs |-> NotCalled]
    /\ fault = [r \in Runs |-> NoFault]

NextDetector ==
    \/ DetectorFit
    \/ DetectorDetect
    \/ DetectorDecision
    \/ DetectorScore

SpecDetector == InitDetector /\ [][NextDetector]_vars

(* ------------------------------ claims --------------------------------- *)

\* The ledgers a claim can speak of: the local results of each function, and
\* what the caller received.
Ledger(r) == results[r]

\* The call took the placeholder return of run_multi_step_simulation (a
\* dependency was not passed); no loop ran.
Placeholder(r) == r = "sim" /\ pc[r] # "off" /\ ~args[r].deps

FuelColumnOk(f) ==
    /\ \A i \in 1..Len(f) : IsFin(f[i]) /\ 0 <= f[i].v /\ f[i].v <= StartFuel
    /\ \A i \in 1..Len(f) : \A j \in 1..Len(f) : i < j => f[j].v <= f[i].v

\* C1: in any run of either simulation loop with real dependencies, whatever
\* the oracle returns, the fuel starts at 100.0, every recorded fuel level is a
\* finite number in [0, 100], and the recorded levels never increase from one
\* step to a later one.
C1_FuelMonotone ==
    \A r \in Runs :
        /\ pc[r] = "running" /\ step[r] = 0 => current_fuel[r] = Fin(StartFuel)
        /\ FuelColumnOk(Ledger(r).fuel_levels)
        /\ ret[r].kind = "returned" /\ ~Placeholder(r) =>
              /\ ret[r].results = Ledger(r)
              /\ FuelColumnOk(ret[r].results.fuel_levels)
        /\ pc[r] = "running" /\ step[r] > 0 =>
              current_fuel[r] = Ledger(r).fuel_levels[step[r]]

\* C1 witness: a run with real dependencies whose fuel fell from a positive
\* level to the floor 0 between two steps.
C1_Witness ==
    \E r \in Runs :
        /\ pc[r] = "done"
        /\ args[r].oracle = "any"
        /\ Len(Ledger(r).fuel_levels) >= 2
        /\ Ledger(r).fuel_levels[1].v \in 1..(StartFuel - 1)
        /\ Ledger(r).fuel_levels[2].v = 0

\* C2 (as claimed): in the attacked run, every step that is attack-active and
\* flagged anomalous stores six manoeuvre components that all lie in
\* [-2.0, 2.0], whatever the oracle returned.
C2_ClampedInWindow ==
    LET L == Ledger("atk")
    IN  \A i \in 1..Len(L.steps) :
            L.attack_active[i] /\ L.anomalies[i] =>
                \A j \in 1..6 :
                    /\ IsFin(L.predictions[i][j])
                    /\ -ClampLimit <= L.predictions[i][j].v
                    /\ L.predictions[i][j].v <= ClampLimit

CompleteLedger(r) ==
    /\ ret[r].kind = "returned"
    /\ LET L == ret[r].results
           n == args[r].num_steps
       IN  /\ L.steps = [i \in 1..n |-> i - 1]
           /\ \A c \in DOMAIN L : Len(L[c]) = n
           /\ n > 0 => /\ IsFin(L.fuel_levels[n])
                       /\ 0 <= L.fuel_levels[n].v
                       /\ L.fuel_levels[n].v <= StartFuel

\* C4: a call with num_steps = N that enters the loop and in which neither the
\* scorer nor the oracle fails goes from idle through running to done and never raises: while it
\* runs it has recorded exactly the steps done so far, at most N of them; once
\* done it has returned a ledger of
\* exactly N records with step indices 0, 1, ..., N-1 in order and a final
\* fuel level in [0, 100].
C4_RunCompletes ==
    \A r \in Runs :
        fault[r].kind \notin {"score", "oracle"} /\ ~Placeholder(r) =>
            /\ pc[r] \in {"off", "idle", "running", "done"}
            /\ pc[r] = "idle" => step[r] = 0
            /\ pc[r] = "running" =>
                  /\ step[r] <= args[r].num_steps
                  /\ Ledger(r).steps = [i \in 1..step[r] |-> i - 1]
            /\ pc[r] = "done" => CompleteLedger(r)

\* C4 witness: a completed run of MaxSteps steps with real dependencies.
C4_Witness ==
    \E r \in Runs :
        /\ pc[r] = "done"
        /\ ~Placeholder(r)
        /\ args[r].oracle = "any"
        /\ args[r].num_steps = MaxSteps
        /\ Len(ret[r].results.steps) = MaxSteps

\* C7 (as claimed): when the scorer or the oracle throws at step k, the caller
\* receives the error together with the partial ledger of steps 0..k-1, and
\* the run is not reported as a success.
C7_PartialLedgerWithError ==
    \A r \in Runs :
        fault[r].kind \in {"score", "oracle"} =>
            /\ pc[r] # "done"
            /\ pc[r] = "raised" =>
                  /\ ret[r].kind = "raised"
                  /\ "results" \in DOMAIN ret[r]
                  /\ ret[r].results.steps = [i \in 1..fault[r].at |-> i - 1]

\* The operation that fails at step fault[r].at was actually invoked there:
\* generation, scoring and the oracle are invoked at every step, corruption in
\* the attacked run exactly at the attack-active steps.
CaughtFailure(r) ==
    \/ fault[r].kind = "generate"
    \/ /\ r = "atk"
       /\ fault[r].kind = "inject"
       /\ AttackActive(fault[r].at, args[r].attack_start, args[r].attack_end)

PropagatedFailure(r) == fault[r].kind \in {"score", "oracle"}

\* C8 (as claimed): a failure of any per-step operation (generation,
\* corruption, scoring, oracle query) at step k aborts the run; no record for
\* step k is ever made from substitute data.
C8_AnyFailureAborts ==
    \A r \in Runs :
        CaughtFailure(r) \/ PropagatedFailure(r) =>
            /\ Len(Ledger(r).steps) <= fault[r].at
            /\ pc[r] # "done"

\* The position is a finite point strictly inside the 1000 km sphere, decided
\* on the squares (components in tenths of a km).
StrictlyInside(p) ==
    /\ Len(p) = 3
    /\ \A i \in 1..3 : IsFin(p[i]) /\ Abs(p[i].v) < CloseDistance
    /\ LET t(i) == p[i].v \div 10
       IN  t(1) * t(1) + t(2) * t(2) + t(3) * t(3)
               < (CloseDistance \div 10) * (CloseDistance \div 10)

\* C10: whenever the Euclidean norm of the position is below 1000 km,
\* calculate_time_to_destination returns exactly 0.5 hours, whatever the
\* velocity (finite, NaN, infinite or of the wrong length) and the fuel level.
C10_FinalApproach ==
    est.pc = "returned" /\ StrictlyInside(est.current_pos) =>
        est.result = Fin(FinalApproachHours)

\* C10 witness: a call 0.1 km inside the sphere with a malformed velocity and
\* a NaN fuel level that returned 0.5 hours.
C10_Witness ==
    /\ est.pc = "returned"
    /\ est.current_pos = << Fin(-60000), Fin(79990), Fin(0) >>
    /\ Len(est.current_velocity) = 2
    /\ est.fuel_level = NaN
    /\ est.result = Fin(FinalApproachHours)

\* The arguments of the call are three finite position components at least
\* 1000 km from the origin, three finite velocity components and a finite
\* fuel level.
FiniteFarCall ==
    /\ est.pc = "returned"
    /\ Len(est.current_pos) = 3
    /\ Len(est.current_velocity) = 3
    /\ \A i \in 1..3 : IsFin(est.current_pos[i]) /\ IsFin(est.current_velocity[i])
    /\ IsFin(est.fuel_level)
    /\ ~StrictlyInside(est.current_pos)

\* Some component of the position or the velocity, or the fuel level, is NaN.
NaNInput ==
    \/ \E i \in 1..Len(est.current_pos) : IsNaN(est.current_pos[i])
    \/ \E i \in 1..Len(est.current_velocity) : IsNaN(est.current_velocity[i])
    \/ IsNaN(est.fuel_level)

\* C11 (as claimed): calculate_time_to_destination never returns NaN, and a
\* call that gets a NaN input outside the final-approach sphere returns None.
C11_NaNBecomesNone ==
    est.pc = "returned" =>
        /\ ~IsNaN(est.result)
        /\ NaNInput /\ ~StrictlyInside(est.current_pos) => est.result = None

\* C12: for finite inputs with distance >= 1000 km the returned value is
\* +infinity or a finite number of hours in [0.01, 1000].
C12_ClampedEstimate ==
    FiniteFarCall =>
        \/ est.result = PosInf
        \/ /\ IsFin(est.result)
           /\ MinHours <= est.result.v
           /\ est.result.v <= MaxHours

\* The seconds the estimator computed for the call before its sanity checks,
\* converted to hundredths of an hour.
ComputedHours ==
    XScale(TotalTime(XNorm3(est.current_pos),
                     VelocityTowardsMars(est.current_pos, est.current_velocity,
                                         XNorm3(est.current_pos)),
                     est.fuel_level),
           1, HoursPerSecondDivisor)

\* C12 witness: a call with finite inputs four million km out and a closing
\* speed of 0.01 km/s, whose computed value was a finite number above 1000 h
\* and came back as +infinity.
C12_Witness ==
    /\ FiniteFarCall
    /\ IsFin(ComputedHours)
    /\ ComputedHours.v > MaxHours
    /\ est.result = PosInf

\* C13: with fuel_level = 0 (no thrust available), a closing speed <= 0 and a
\* distance >= 1000 km, calculate_time_to_destination returns +infinity; it
\* returns a value, so nothing was raised.
C13_NoThrustIsInfinite ==
    (/\ FiniteFarCall
     /\ est.fuel_level = Fin(0)
     /\ XLe(VelocityTowardsMars(est.current_pos, est.current_velocity,
                                XNorm3(est.current_pos)), Fin(0)))
        => est.result = PosInf

\* C13 witness: a stationary craft at the start position with an empty tank
\* got +infinity.
C13_Witness ==
    /\ est.pc = "returned"
    /\ est.current_pos = << Fin(StartX), Fin(0), Fin(0) >>
    /\ est.current_velocity = << Fin(0), Fin(0), Fin(0) >>
    /\ est.fuel_level = Fin(0)
    /\ est.result = PosInf

\* The calls of detect_drift made so far.
DriftCalls == {drift[i] : i \in 1..Len(drift)}

\* Both arrays of the call hold numbers only and keep at least one value when
\* the non-finite ones are discarded.
UsableData(c) ==
    /\ ~NonNumeric(c.current_data)
    /\ ~NonNumeric(c.reference_data)
    /\ Len(FiniteValues(c.current_data)) > 0
    /\ Len(FiniteValues(c.reference_data)) > 0

\* One of the arrays of the call is empty once its non-finite values are
\* discarded.
EmptyAfterFilter(c) ==
    /\ ~NonNumeric(c.current_data)
    /\ ~NonNumeric(c.reference_data)
    /\ \/ Len(FiniteValues(c.current_data)) = 0
       \/ Len(FiniteValues(c.reference_data)) = 0

\* C14: every call of detect_drift returns a report (nothing is raised, also
\* for an array that holds a non-number); for every method, known or not, a
\* call whose current or reference array is empty after the non-finite values
\* are discarded reports drift_detected = False with an error annotation.
C14_EmptyInputReport ==
    \A c \in DriftCalls :
        /\ {"drift_detected", "score", "method"} \subseteq DOMAIN c.report
        /\ c.report.drift_detected \in BOOLEAN
        /\ EmptyAfterFilter(c) \/ NonNumeric(c.current_data)
                               \/ NonNumeric(c.reference_data) =>
              /\ c.report.drift_detected = FALSE
              /\ "error" \in DOMAIN c.report
        /\ EmptyAfterFilter(c) => c.report.error = "Empty data arrays"

\* C14 witness: a PSI call whose current array has finite values and whose
\* reference array has none left after filtering got the error report.
C14_Witness ==
    \E c \in DriftCalls :
        /\ c.method = "psi"
        /\ c.current_data = << Fin(0), Fin(100), Fin(200), Fin(300) >>
        /\ c.reference_data = << NaN, NegInf >>
        /\ c.report.drift_detected = FALSE
        /\ c.report.error = "Empty data arrays"

\* C15: a call with a method other than psi, ks or js on arrays that are
\* non-empty after filtering returns the error report naming the method:
\* drift_detected = False, score 0.0, and none of the fields (threshold,
\* sample counts) of a report that a drift method produced.
C15_UnknownMethodReport ==
    \A c \in DriftCalls :
        UsableData(c) /\ c.method \notin {"psi", "ks", "js"} =>
            /\ DOMAIN c.report = {"drift_detected", "score", "method", "error"}
            /\ c.report.error = "Unknown method: " \o c.method
            /\ c.report.method = c.method
            /\ c.report.drift_detected = FALSE
            /\ c.report.score = Fin(0)

\* C15 witness: method "PSI" (upper case) on two disjoint samples, for which
\* the psi, ks and js methods all give a non-zero score.
C15_Witness ==
    \E c \in DriftCalls :
        /\ c.method = "PSI"
        /\ c.current_data = << Fin(1000), Fin(1100), Fin(1200), Fin(1300) >>
        /\ c.reference_data = << Fin(0), Fin(100), Fin(200), Fin(300) >>
        /\ c.report.error = "Unknown method: PSI"
        /\ c.report.drift_detected = FALSE

\* C16: for method ks on usable arrays, drift_detected is true exactly when
\* the p-value of the two samples is below 0.05; two calls on the same arrays
\* with different thresholds return the same drift_detected and the same
\* score, and each report echoes the threshold of its own call.
C16_KsIgnoresThreshold ==
    \A c \in DriftCalls :
        UsableData(c) /\ c.method = "ks" =>
            /\ c.report.drift_detected <=>
                  XLt(ks_2samp(FiniteValues(c.current_data),
                               FiniteValues(c.reference_data)).p_value,
                      Fin(Significance))
            /\ c.report.threshold = c.threshold
            /\ \A d \in DriftCalls :
                  (/\ d.method = "ks"
                   /\ d.current_data = c.current_data
                   /\ d.reference_data = c.reference_data)
                      => /\ d.report.drift_detected = c.report.drift_detected
                         /\ d.report.score = c.report.score

\* C16 witness: two ks calls on the same arrays, one with a threshold above
\* the score and one with a threshold below it, both without drift.
C16_Witness ==
    /\ Len(drift) = 2
    /\ drift[1].method = "ks"
    /\ drift[2].method = "ks"
    /\ drift[1].current_data = << Fin(100), NaN, Fin(250), PosInf >>
    /\ drift[1].reference_data = << Fin(0), Fin(100), Fin(200), Fin(300) >>
    /\ drift[1].threshold = Fin(100000)
    /\ drift[2].threshold = Fin(-100000)
    /\ drift[1].report.score = Fin(250000)
    /\ drift[2].report.score = Fin(250000)
    /\ ~drift[1].report.drift_detected
    /\ ~drift[2].report.drift_detected
    /\ drift[1].report.threshold = Fin(100000)
    /\ drift[2].report.threshold = Fin(-100000)

\* The array holds at least two different finite values.
NonDegenerate(data) ==
    /\ ~NonNumeric(data)
    /\ \E i, j \in 1..Len(data) : IsFin(data[i]) /\ IsFin(data[j]) /\ data[i] # data[j]

\* The call compares a non-degenerate sample with itself by a known method.
SelfComparison(c) ==
    /\ c.current_data = c.reference_data
    /\ NonDegenerate(c.current_data)
    /\ c.method \in {"psi", "ks", "js"}

\* C17 (as claimed): comparing a non-degenerate sample with itself reports no
\* drift, for each of the methods psi, ks and js and every threshold.
C17_SelfComparisonAnyThreshold ==
    \A c \in DriftCalls : SelfComparison(c) => ~c.report.drift_detected

\* C17 (amended): comparing a non-degenerate sample with itself gives score 0
\* and reports no drift for method ks at every threshold and for the methods
\* psi and js at every threshold >= 0.
C17_SelfComparison ==
    \A c \in DriftCalls :
        SelfComparison(c) =>
            /\ c.report.score = Fin(0)
            /\ c.method = "ks" \/ XLe(Fin(0), c.threshold) => ~c.report.drift_detected

\* C17 witness: a sample compared with itself by PSI at threshold 0: score 0,
\* no drift.
C17_Witness ==
    \E c \in DriftCalls :
        /\ c.method = "psi"
        /\ c.current_data = << Fin(0), Fin(100), Fin(200), Fin(300) >>
        /\ c.reference_data = c.current_data
        /\ c.threshold = Fin(0)
        /\ c.report.score = Fin(0)
        /\ ~c.report.drift_detected

\* The rows of the returned table that differ from the input.
ChangedRows ==
    {i \in 1..Len(inj.input) : inj.returned[i] # inj.input[i]}

\* The columns position_x, velocity_x, fuel_level and hazard_score of a row.
CorruptibleColumns == {1, 4, 8, 10}

\* C18: for every corruption rate r in [0, 1] and every table of n rows,
\* inject_fake_data returns a table of n rows in which exactly floor(n * r)
\* rows differ from the input; a changed row differs only in position_x,
\* velocity_x, fuel_level and hazard_score; the caller's table is as it was.
C18_CorruptsExactRows ==
    inj.pc = "returned" =>
        /\ Len(inj.returned) = Len(inj.input)
        /\ Cardinality(ChangedRows) = (Len(inj.input) * inj.corruption_rate) \div 100
        /\ \A i \in 1..Len(inj.input) :
              \A col \in (1..10) \ CorruptibleColumns :
                 inj.returned[i][col] = inj.input[i][col]
        /\ inj.df = inj.input

\* C18 witness: a three-row table at rate 0.67: two rows changed, each in all
\* four corruptible columns, one row untouched.
C18_Witness ==
    /\ inj.pc = "returned"
    /\ Len(inj.input) = MaxRows
    /\ inj.corruption_rate = 67
    /\ Cardinality(ChangedRows) = 2
    /\ \A i \in ChangedRows :
          \A col \in CorruptibleColumns : inj.returned[i][col] # inj.input[i][col]

\* The guidance the interpreter in use gives for the scenario's instruction.
ScenarioGuidance ==
    IF args["sim"].oracle = "dummy" THEN << 10, 20, 30 >>
    ELSE interpret_instruction(args["sim"].instruction)

\* The calls of the oracle run r has made: one per recorded step, and the one
\* that raised.
OracleCallsDue(r) ==
    Len(Ledger(r).steps)
    + (IF pc[r] = "raised" /\ ret[r].error = "oracle" THEN 1 ELSE 0)

\* C19: in a scenario the interpreter is called exactly once, when the
\* baseline run starts and before its step 0; every call of the oracle, in the
\* baseline and in the attacked run, at every step, is given that one vector;
\* the attacked run is started with the guidance the baseline returned.
C19_GuidanceFixed ==
    /\ calls.interpret = (IF pc["sim"] \in {"off", "idle"} THEN 0 ELSE 1)
    /\ \A r \in Runs :
          /\ Len(calls.oracle[r]) = OracleCallsDue(r)
          /\ \A i \in 1..Len(calls.oracle[r]) : calls.oracle[r][i] = ScenarioGuidance
          /\ pc[r] = "running" => guidance[r] = ScenarioGuidance
          /\ ret[r].kind = "returned" => ret[r].guidance = ScenarioGuidance
    /\ pc["atk"] # "off" => args["atk"].guidance = ret["sim"].guidance

\* C19 witness: a finished scenario of MaxSteps steps with real dependencies:
\* one interpretation, MaxSteps oracle calls in each run, all with the guidance
\* (1.0, 0, 0.8) of the instruction.
C19_Witness ==
    /\ hpc = "done"
    /\ args["sim"].oracle = "velocity"
    /\ calls.interpret = 1
    /\ \A r \in Runs :
          /\ Len(calls.oracle[r]) = MaxSteps
          /\ \A i \in 1..MaxSteps : calls.oracle[r][i] = << 100, 0, 80 >>
    /\ ret["atk"].guidance = ret["sim"].guidance

\* C20 (as claimed): every guidance vector that run_multi_step_simulation
\* returns with a ledger is a 3-tuple with direction_bias in [-1, 1], reserved
\* component 0 and fuel_priority in [0, 1], with or without the dependencies.
C20_GuidanceWellFormed ==
    ret["sim"].kind = "returned" =>
        LET g == ret["sim"].guidance
        IN  /\ Len(g) = 3
            /\ g[1] \in -100..100
            /\ g[2] = 0
            /\ g[3] \in 0..100

\* No call of fit precedes entry i of the detector's log.
NeverFitBefore(i) == \A j \in 1..(i - 1) : det.log[j].op # "fit"

ScoringOps == {"detect", "decision_function", "score_samples"}

\* C21: a call of detect, decision_function or score_samples on an
\* AnomalyDetector on which fit has never been called raises an error to the
\* caller; it returns neither a score nor a classification.
C21_UnfittedIsError ==
    det.pc = "live" =>
        \A i \in 1..Len(det.log) :
            det.log[i].op \in ScoringOps /\ NeverFitBefore(i) =>
                /\ det.log[i].outcome.kind = "raised"
                /\ "value" \notin DOMAIN det.log[i].outcome

\* C21 witness: the three methods were called, one after the other, on a new
\* detector, and each call raised NotFittedError.
C21_Witness ==
    /\ det.pc = "live"
    /\ Len(det.log) = 3
    /\ det.log[1].op = "detect"
    /\ det.log[2].op = "decision_function"
    /\ det.log[3].op = "score_samples"
    /\ \A i \in 1..3 : det.log[i].outcome = Raised("NotFittedError")

\* C23 (as claimed): for non-empty finite current and reference arrays, the
\* PSI and JS scores in the drift report are finite numbers, also when no
\* current value falls inside the range of the reference's bin edges.
C23_ScoresFinite ==
    \A c \in DriftCalls :
        (/\ c.method \in {"psi", "js"}
         /\ Len(c.current_data) > 0
         /\ Len(c.reference_data) > 0
         /\ \A i \in 1..Len(c.current_data) : IsFin(c.current_data[i])
         /\ \A i \in 1..Len(c.reference_data) : IsFin(c.reference_data[i]))
            => /\ "error" \notin DOMAIN c.report
               /\ IsFin(c.report.score)

\* The fuel level and the position run r had when its step i began.
FuelBefore(r, i) == IF i = 1 THEN Fin(StartFuel) ELSE Ledger(r).fuel_levels[i - 1]

PositionBefore(r, i) ==
    IF i = 1 THEN << Fin(StartX), Fin(0), Fin(0) >> ELSE Ledger(r).positions[i - 1]

\* Step i of the attacked run was attack-active and flagged: the clamp fired.
ClampFired(i) == Ledger("atk").attack_active[i] /\ Ledger("atk").anomalies[i]

\* C24 (as claimed): in a step where the safety clamp fires, the fuel update
\* and the position update use the clamped vector, so the fuel decrease of the
\* step is at most 0.1 * ||(2, 2, 2)|| (0.35 rounded up) and each position
\* component moves by at most |velocity_i| * 0.1 + 0.02.
C24_ClampBoundsStep ==
    LET L == Ledger("atk")
    IN  \A i \in 1..Len(L.steps) :
            ClampFired(i) /\ IsFin(FuelBefore("atk", i)) =>
                /\ IsFin(L.fuel_levels[i])
                /\ FuelBefore("atk", i).v - L.fuel_levels[i].v <= 35
                /\ \A j \in 1..3 :
                      IsFin(PositionBefore("atk", i)[j]) =>
                          /\ IsFin(L.positions[i][j])
                          /\ Abs(L.positions[i][j].v - PositionBefore("atk", i)[j].v)
                                <= Abs(L.sensor_data[i][j + 3]) \div 10 + 1 + 2

\* Step i of run r: the clamp's condition holds (never in the baseline, which
\* has no attack window).
ClampDue(r, i) == r = "atk" /\ ClampFired(i)

\* C25: the clamp is the only modification of the oracle's output.  In every
\* step that is not both attack-active and flagged (every baseline step, every
\* attacked step outside the window, every unflagged step inside it) the
\* manoeuvre recorded and applied to fuel and position is exactly the vector
\* the oracle returned; in the other steps it is that vector clipped.
C25_OnlyClampModifies ==
    \A r \in Runs :
        pc[r] # "off" /\ ~Placeholder(r) /\ args[r].oracle # "absent" =>
            LET L == Ledger(r)
            IN  \A i \in 1..Len(L.steps) :
                    LET returned == calls.returned[r][i]
                    IN  IF ClampDue(r, i)
                        THEN L.predictions[i] =
                                [j \in 1..6 |-> XClip(returned[j], -ClampLimit, ClampLimit)]
                        ELSE /\ L.predictions[i] = returned
                             /\ L.fuel_levels[i] = FuelUpdate(FuelBefore(r, i), returned)
                             /\ L.positions[i] =
                                   PositionUpdate(PositionBefore(r, i),
                                                  Velocity(L.sensor_data[i]), returned)

\* C25 witness: an attacked run whose oracle returned the large manoeuvre
\* twice, both steps flagged: inside the window it was recorded clipped,
\* outside the window as returned.
C25_Witness ==
    /\ pc["atk"] = "done"
    /\ args["atk"].oracle = "any"
    /\ Len(Ledger("atk").steps) = 2
    /\ calls.returned["atk"] = << BigMove, BigMove >>
    /\ ClampFired(1)
    /\ Ledger("atk").predictions[1] # BigMove
    /\ Ledger("atk").anomalies[2] /\ ~Ledger("atk").attack_active[2]
    /\ Ledger("atk").predictions[2] = BigMove

\* The position that entry i of run r's positions column shows to a reader:
\* the stored array, or the run's current position where the entry refers to
\* the array that the loop updates in place.
StoredPosition(r, i) ==
    LET entry == results[r].positions[i]
    IN  IF Len(entry) = 1 THEN current_pos[r] ELSE entry

\* What a reader sees of the record of step i of run r.
RecordAt(r, i) ==
    [step |-> results[r].steps[i],
     is_anomaly |-> results[r].anomalies[i],
     maneuver |-> results[r].predictions[i],
     sample |-> results[r].sensor_data[i],
     fuel |-> results[r].fuel_levels[i],
     distance |-> results[r].distances[i],
     position |-> StoredPosition(r, i),
     time_estimate |-> results[r].time_estimates[i]]

\* C26: a step record is immutable once appended: whatever happens next
\* (later steps with their in-place position updates, the return), the
\* position, fuel, manoeuvre and sample stored for step i stay the values they
\* had at the end of step i.
C26_RecordsImmutable ==
    [][\A r \in Runs :
          \A i \in 1..Len(results[r].steps) : RecordAt(r, i)' = RecordAt(r, i)]_vars

\* C26 witness: a finished run of two steps whose position moved in the second
\* step, while record 1 still holds the position reached at the end of step 1.
C26_Witness ==
    \E r \in Runs :
        /\ pc[r] = "done"
        /\ ~Placeholder(r)
        /\ Len(results[r].steps) = 2
        /\ current_pos[r] # StoredPosition(r, 1)
        /\ current_pos[r] = StoredPosition(r, 2)
        /\ StoredPosition(r, 1) =
              PositionUpdate(<< Fin(StartX), Fin(0), Fin(0) >>,
                             Velocity(results[r].sensor_data[1]),
                             results[r].predictions[1])

\* C30 (as claimed): called without interpreter, detector or oracle,
\* run_multi_step_simulation returns a placeholder ledger that satisfies the
\* ledger invariants for every num_steps >= 0: exactly num_steps records with
\* step indices 0..num_steps-1, fuel levels non-increasing and never below 0,
\* distances never below 0.
C30_PlaceholderLedgerSound ==
    Placeholder("sim") /\ ret["sim"].kind = "returned" =>
        LET L == ret["sim"].results
            n == args["sim"].num_steps
        IN  /\ L.steps = [i \in 1..n |-> i - 1]
            /\ \A c \in DOMAIN L : Len(L[c]) = n
            /\ \A i \in 1..n :
                  /\ IsFin(L.fuel_levels[i]) /\ L.fuel_levels[i].v >= 0
                  /\ i > 1 => L.fuel_levels[i].v <= L.fuel_levels[i - 1].v
                  /\ IsFin(L.distances[i]) /\ L.distances[i].v >= 0

\* The nominal sample: generate_correct_data reseeds the generator, so it is
\* the same sample at every call.
NominalState == generate_correct_data(0).state

\* The data generator works throughout the baseline loop: the run is not the
\* placeholder, and neither the import, nor generation, nor corruption fails.
GeneratorWorks(r) ==
    /\ ~Placeholder(r)
    /\ fault[r].kind \notin {"import", "generate", "inject"}

Untouched(sample) == sample = NominalState

\* Every column inject_fake_data writes at rate 1.0 differs from the nominal
\* sample, and no other column does.
FullyCorrupted(sample) ==
    \A col \in 1..10 : (sample[col] # NominalState[col]) <=> col \in CorruptibleColumns

\* C22: in each step of run_multi_step_simulation (the generator working) the
\* sample is either the untouched nominal sample or a fully corrupted one,
\* never a partially corrupted one; with anomaly_rate 0 no step is corrupted
\* and with anomaly_rate 1 every step is.
C22_WholeOrNothing ==
    GeneratorWorks("sim") =>
        LET L == Ledger("sim")
            q == args["sim"].anomaly_rate
        IN  \A i \in 1..Len(L.steps) :
                /\ Untouched(L.sensor_data[i]) \/ FullyCorrupted(L.sensor_data[i])
                /\ q = 0 => Untouched(L.sensor_data[i])
                /\ q = 100 => FullyCorrupted(L.sensor_data[i])

\* C22 witness: a finished run of MaxSteps steps with anomaly_rate 1 whose
\* samples are all fully corrupted.
C22_Witness ==
    /\ pc["sim"] = "done"
    /\ GeneratorWorks("sim")
    /\ args["sim"].anomaly_rate = 100
    /\ Len(Ledger("sim").steps) = MaxSteps
    /\ \A i \in 1..MaxSteps : FullyCorrupted(Ledger("sim").sensor_data[i])

C3_AttackWindow ==
    LET a == args["atk"]
        L == Ledger("atk")
        B == Ledger("sim")
    IN  /\ Len(L.attack_active) = Len(L.steps)
        /\ \A i \in 1..Len(L.steps) :
              L.attack_active[i] <=>
                  (a.attack_start <= L.steps[i] /\ L.steps[i] < a.attack_end)
        /\ ret["atk"].kind = "returned" => ret["atk"].results = L
        /\ "attack_active" \notin DOMAIN B
        /\ ret["sim"].kind = "returned" => ret["sim"].results = B
        /\ fault["sim"].kind # "import" =>
              \A i \in 1..Len(B.steps) : B.sensor_data[i] = NominalState

\* C3 witness: a finished scenario of MaxSteps steps whose window opened after
\* the first step: the first record is inactive, the second active.
C3_Witness ==
    /\ hpc = "done"
    /\ args["atk"].attack_start = 1
    /\ Len(Ledger("atk").steps) = MaxSteps
    /\ ~Ledger("atk").attack_active[1]
    /\ Ledger("atk").attack_active[2]
    /\ Len(Ledger("sim").steps) = MaxSteps

\* What the ledger L holds for its i-th step, apart from the attack_active
\* column that only the attacked ledger has.
StepOf(L, i) ==
    [sample |-> L.sensor_data[i], is_anomaly |-> L.anomalies[i],
     maneuver |-> L.predictions[i], fuel |-> L.fuel_levels[i],
     position |-> L.positions[i]]

\* C28: in a scenario with a pure oracle and a fitted scorer, the attacked run
\* is identical to the baseline before the attack begins: for every step
\* k < attack_start that both ledgers hold, sample, anomaly flag, manoeuvre,
\* fuel and position are equal, and the trajectory deviation of the step is 0.
C28_SameBeforeAttack ==
    args["sim"].oracle # "dummy" =>
        LET B == Ledger("sim")
            A == Ledger("atk")
        IN  \A i \in 1..Len(A.steps) :
                i <= Len(B.steps) /\ A.steps[i] < args["atk"].attack_start =>
                    /\ StepOf(A, i) = StepOf(B, i)
                    /\ ~A.attack_active[i]
                    /\ Deviation(B, A, i) = Fin(0)

\* C28 witness: a finished scenario of two steps with the velocity-following
\* oracle whose attack began at step 1: the records of step 0 agree, those of
\* step 1 do not.
C28_Witness ==
    /\ hpc = "done"
    /\ args["sim"].oracle = "velocity"
    /\ args["atk"].attack_start = 1
    /\ args["atk"].attack_end = 2
    /\ Len(Ledger("atk").steps) = 2
    /\ StepOf(Ledger("atk"), 1) = StepOf(Ledger("sim"), 1)
    /\ StepOf(Ledger("atk"), 2) # StepOf(Ledger("sim"), 2)
    /\ Deviation(Ledger("sim"), Ledger("atk"), 2) # Fin(0)

\* The columns of the baseline ledger; the attacked ledger has attack_active
\* as well.
LedgerColumns(r) ==
    {"steps", "anomalies", "predictions", "sensor_data", "fuel_levels", "distances",
     "positions", "time_estimates"}
    \cup (IF r = "atk" THEN {"attack_active"} ELSE {})

\* C29: after every completed step k of a run every column of its ledger has
\* exactly k + 1 entries (no entry before step 0), entry i of the steps column
\* being step i; the baseline and the attacked ledger that a scenario gets
\* back have the same length.
C29_ColumnsAligned ==
    /\ \A r \in Runs :
          ~Placeholder(r) =>
              /\ DOMAIN Ledger(r) = LedgerColumns(r)
              /\ \A c \in LedgerColumns(r) : Len(Ledger(r)[c]) = step[r]
              /\ Ledger(r).steps = [i \in 1..step[r] |-> i - 1]
              /\ ret[r].kind = "returned" => ret[r].results = Ledger(r)
    /\ ret["sim"].kind = "returned" /\ ret["atk"].kind = "returned" =>
          \A c \in LedgerColumns("sim") :
              Len(ret["sim"].results[c]) = Len(ret["atk"].results.attack_active)

\* C29 witness: a finished scenario of MaxSteps steps: both ledgers were
\* returned, and each of the seventeen columns has MaxSteps entries.
C29_Witness ==
    /\ hpc = "done"
    /\ step["sim"] = MaxSteps
    /\ step["atk"] = MaxSteps
    /\ \A r \in Runs :
          /\ ret[r].kind = "returned"
          /\ \A c \in LedgerColumns(r) : Len(ret[r].results[c]) = MaxSteps

\* C5 (as claimed): when the attack window is empty (attack_start =
\* attack_end) and both runs have completed at least one step, the scenario
\* ends with a report, not an exception: zero deviation and the
\* classification "NO ATTACK DATA".
C5_EmptyWindowReport ==
    (/\ hpc \in {"done", "raised"}
     /\ pc["atk"] = "done"
     /\ args["atk"].num_steps >= 1
     /\ args["atk"].attack_start = args["atk"].attack_end)
        => /\ hpc = "done"
           /\ report.kind = "summary"
           /\ report.max_deviation = Fin(0)
           /\ report.avg_deviation = Fin(0)
           /\ report.overall = "NO ATTACK DATA"

\* C6 (as claimed): for a non-empty attack window, the number of anomalies the
\* report gives for the attack period is the number of attacked-ledger records
\* that are attack-active and flagged, and the detection rate is that number
\* over the window length, also when attack_end exceeds total_steps.
C6_DetectionCount ==
    (/\ hpc = "done"
     /\ report.kind = "summary"
     /\ args["atk"].attack_start < args["atk"].attack_end)
        => LET L == ret["atk"].results
               flagged == Cardinality({i \in 1..Len(L.steps) :
                                          L.attack_active[i] /\ L.anomalies[i]})
           IN  /\ report.attack_anomalies = flagged
               /\ report.detection_rate =
                      PercentTenths(flagged, args["atk"].attack_end - args["atk"].attack_start)

\* The score and the move of a fitted scorer and a pure oracle.
TheScore(a, state) == CHOOSE x \in ScorerOutputs(a.scorer, state) : TRUE

TheMove(a, state, g) == CHOOSE m \in OracleOutputs(a.oracle, state, g) : TRUE

RECURSIVE AloneFrom(_, _, _, _)
\* The ledger of run r from step k on when nothing else touches the generator,
\* st being its fuel, position and ledger so far.
AloneFrom(r, g, k, st) ==
    LET a == args[r]
        attack_active == r = "atk" /\ AttackActive(k, a.attack_start, a.attack_end)
        acq == IF r = "sim"
               THEN SimAcquire(RngSeed(42), "none", a.anomaly_rate, NominalState)
               ELSE AtkAcquire(RngSeed(42), "none", attack_active)
        flagged == IsAnomaly(TheScore(a, acq.state),
                             IF r = "sim" THEN a.anomaly_sensitivity ELSE AttackSensitivity)
    IN  IF ~LoopContinues(k, a.num_steps) THEN st.results
        ELSE AloneFrom(r, g, k + 1,
                       StepOutcome(r, st.results, st.fuel, st.pos, k, acq.state, flagged,
                                   TheMove(a, acq.state, g), attack_active))

\* The ledger run r returns when it is executed on its own.
AloneLedger(r) ==
    AloneFrom(r, IF r = "sim" THEN interpret_instruction(args[r].instruction)
                 ELSE args[r].guidance,
              0, [fuel |-> Fin(StartFuel), pos |-> << Fin(StartX), Fin(0), Fin(0) >>,
                  results |-> EmptyLedger(r)])

\* C9 (as claimed): with a pure oracle and a fitted read-only scorer, however
\* the steps of the baseline and the attacked run and the random draws inside
\* them are interleaved, both runs return the ledgers they return when
\* executed one after the other.
C9_InterleavingInvisible ==
    \A r \in Runs :
        pc[r] = "done" => ret[r].results = AloneLedger(r)

====
